---- MODULE Spec2Model ----
(***************************************************************************)
(* Model of the personal-knowledge-base question-answering core:           *)
(* DocumentProcessor (src/src/document_processor.py), DevSecOpsRAG         *)
(* (src/src/rag_system.py) and the query endpoints of the API              *)
(* (src/src/api_service.py).                                               *)
(*                                                                         *)
(* Text is modelled as a sequence of characters, each character a          *)
(* one-character string; "<bs>" stands for the backslash character and     *)
(* "<lf>" for the newline character.                                       *)
(***************************************************************************)
EXTENDS Integers, Sequences, FiniteSets, TLC

VARIABLES
    store,        \* the collection: sequence of stored chunks, in insertion order
    dupPolicy,    \* what the store's add does with an id it already holds
    assigned,     \* chunk ids that ingest_documents calls have assigned
    last,         \* the last call on the store and what it returned
    fname,        \* _categorize_document: the filename last categorised
    fcat,         \*   and the category returned for it
    gname,        \* the same filename in another letter case
    gcat,         \*   and the category returned for it
    rquestion,    \* generate_response: the question last answered
    rcontexts,    \*   the contexts it was answered from
    ranswer,      \*   and the answer
    cloned,       \* process_github_repo: the clone paths that exist, by repository name
    synced,       \*   and the repositories a run has cloned or pulled with success
    query_count,  \* api_service: the queries the API has answered
    rag_system    \*   and whether the startup event has built the DevSecOpsRAG

vars == <<store, dupPolicy, assigned, last,
          fname, fcat, gname, gcat, rquestion, rcontexts, ranswer,
          cloned, synced, query_count, rag_system>>

storeVars == <<store, dupPolicy, assigned, last>>
catVars == <<fname, fcat, gname, gcat>>
respVars == <<rquestion, rcontexts, ranswer>>
procVars == <<cloned, synced>>
apiVars == <<query_count, rag_system>>

----------------------------------------------------------------------------
(* Bounds of the model *)

\* documents handed to one ingest_documents call
MaxDocs == 2
\* largest n_results / n_contexts a caller asks for
MaxN == 2
\* parts a filename is put together from
MaxFileParts == 2
\* parts a question is put together from
MaxQuestionParts == 2

----------------------------------------------------------------------------
(* Text *)

\* the lower-case letter of each upper-case letter
LowerOf ==
    [A |-> "a", B |-> "b", C |-> "c", D |-> "d", E |-> "e", F |-> "f", G |-> "g",
     H |-> "h", I |-> "i", J |-> "j", K |-> "k", L |-> "l", M |-> "m", N |-> "n",
     O |-> "o", P |-> "p", Q |-> "q", R |-> "r", S |-> "s", T |-> "t", U |-> "u",
     V |-> "v", W |-> "w", X |-> "x", Y |-> "y", Z |-> "z"]

\* the upper-case letter of each lower-case letter
UpperOf ==
    [a |-> "A", b |-> "B", c |-> "C", d |-> "D", e |-> "E", f |-> "F", g |-> "G",
     h |-> "H", i |-> "I", j |-> "J", k |-> "K", l |-> "L", m |-> "M", n |-> "N",
     o |-> "O", p |-> "P", q |-> "Q", r |-> "R", s |-> "S", t |-> "T", u |-> "U",
     v |-> "V", w |-> "W", x |-> "X", y |-> "Y", z |-> "Z"]

\* str.lower() on one character
LowerChar(c) == IF c \in DOMAIN LowerOf THEN LowerOf[c] ELSE c

\* str.upper() on one character
UpperChar(c) == IF c \in DOMAIN UpperOf THEN UpperOf[c] ELSE c

\* str.lower()
Lower(s) == SubSeq([i \in 1..Len(s) |-> LowerChar(s[i])], 1, Len(s))

\* str.upper()
Upper(s) == SubSeq([i \in 1..Len(s) |-> UpperChar(s[i])], 1, Len(s))

\* str.swapcase()
SwapCase(s) ==
    SubSeq([i \in 1..Len(s) |-> IF s[i] \in DOMAIN LowerOf THEN LowerOf[s[i]]
                                                           ELSE UpperChar(s[i])],
           1, Len(s))

\* Python's `k in s` on strings: k occurs in s as a substring
Contains(s, k) ==
    \E i \in 0..(Len(s) - Len(k)) : \A j \in 1..Len(k) : s[i + j] = k[j]

\* any(keyword in s for keyword in kws): a keyword starts at some place of s,
\* looked for at the places where a keyword's first character stands
AnyIn(s, kws) ==
    LET heads == { k[1] : k \in kws } IN
    \E i \in 1..Len(s) :
        /\ s[i] \in heads
        /\ \E k \in kws : /\ i + Len(k) - 1 <= Len(s)
                          /\ SubSeq(s, i, i + Len(k) - 1) = k

\* s.startswith(p)
StartsWith(s, p) == Len(p) <= Len(s) /\ \A j \in 1..Len(p) : s[j] = p[j]

\* s[:n]
Take(s, n) == SubSeq(s, 1, IF Len(s) < n THEN Len(s) ELSE n)

----------------------------------------------------------------------------
(* DocumentProcessor._categorize_document *)

KwSecurity == { <<"s","e","c","u","r","i","t","y">>, <<"s","e","c">>, <<"c","o","m","p","l","i","a","n","c","e">>, <<"a","u","d","i","t">> }
KwCicd == { <<"c","i">>, <<"c","d">>, <<"p","i","p","e","l","i","n","e">>, <<"d","e","p","l","o","y">>, <<"j","e","n","k","i","n","s">>, <<"g","i","t","h","u","b","-","a","c","t","i","o","n","s">> }
KwInfrastructure == { <<"k","u","b","e","r","n","e","t","e","s">>, <<"k","8","s">>, <<"d","o","c","k","e","r">>, <<"c","o","n","t","a","i","n","e","r">> }
KwAiEngineering == { <<"m","l">>, <<"a","i">>, <<"m","o","d","e","l">>, <<"t","r","a","i","n","i","n","g">>, <<"m","l","o","p","s">> }
KwCloudCertification == { <<"a","w","s">>, <<"c","l","o","u","d">>, <<"c","e","r","t">>, <<"s","o","3">> }
KwProfessionalProfile == { <<"r","e","s","u","m","e">>, <<"c","v">> }
KwProjectDocumentation == { <<"p","r","o","j","e","c","t">>, <<"i","m","p","l","e","m","e","n","t","a","t","i","o","n">> }

\* a plausible slip: the filename is matched as given, not lower-cased
CategorizeDocumentCaseSensitive(filename) ==
    LET filename_lower == filename IN
    IF AnyIn(filename_lower, KwSecurity) THEN "security"
    ELSE IF AnyIn(filename_lower, KwCicd) THEN "cicd"
    ELSE IF AnyIn(filename_lower, KwInfrastructure) THEN "infrastructure"
    ELSE IF AnyIn(filename_lower, KwAiEngineering) THEN "ai_engineering"
    ELSE IF AnyIn(filename_lower, KwCloudCertification) THEN "cloud_certification"
    ELSE IF AnyIn(filename_lower, KwProfessionalProfile) THEN "professional_profile"
    ELSE IF AnyIn(filename_lower, KwProjectDocumentation) THEN "project_documentation"
    ELSE "general"

CategorizeDocument(filename) ==
    LET filename_lower == Lower(filename) IN
    IF AnyIn(filename_lower, KwSecurity) THEN "security"
    ELSE IF AnyIn(filename_lower, KwCicd) THEN "cicd"
    ELSE IF AnyIn(filename_lower, KwInfrastructure) THEN "infrastructure"
    ELSE IF AnyIn(filename_lower, KwAiEngineering) THEN "ai_engineering"
    ELSE IF AnyIn(filename_lower, KwCloudCertification) THEN "cloud_certification"
    ELSE IF AnyIn(filename_lower, KwProfessionalProfile) THEN "professional_profile"
    ELSE IF AnyIn(filename_lower, KwProjectDocumentation) THEN "project_documentation"
    ELSE "general"

\* the filenames the categoriser is run on: one or two parts put together, so
\* that keywords also arise across a join ("c" \o "i") and in either letter case
FileParts ==
    { <<"S","e","c">>, <<"s","e","c">>, <<"A","u","d","i","t">>, <<"C","I">>, <<"c">>, <<"i">>, <<"D","e","p","l","o","y">>, <<"k","8","s">>, <<"D","o","c","k","e","r">>,
      <<"d","o","c","k","e","r">>, <<"M","L">>, <<"a","i">>, <<"A","W","S">>, <<"c","e","r","t">>, <<"C","V">>, <<"R","e","s","u","m","e">>, <<"p","r","o","j","e","c","t">>,
      <<"P","r","o","j","e","c","t">>, <<"n","o","t","e","s">>, <<".","m","d">> }

RECURSIVE Joined(_, _)
\* every text made of 1..n members of parts
Joined(parts, n) ==
    IF n = 0 THEN {}
    ELSE parts \cup { a \o b : a \in parts, b \in Joined(parts, n - 1) }

Filenames == Joined(FileParts, MaxFileParts)

\* the same text in other letter cases
Recasings(s) == { Upper(s), Lower(s), SwapCase(s) }

\* _categorize_document has not been called
CatInit ==
    /\ fname = <<>>
    /\ fcat = "none"
    /\ gname = <<>>
    /\ gcat = "none"

\* _categorize_document(fname), and _categorize_document(gname)
Categorize ==
    /\ fcat = "none"
    /\ fcat' = CategorizeDocument(fname)
    /\ gcat' = CategorizeDocument(gname)
    /\ UNCHANGED <<fname, gname>>

----------------------------------------------------------------------------
(* More text helpers *)

Whitespace == { " ", "<lf>" }

RECURSIVE LStrip(_)
\* str.lstrip()
LStrip(s) ==
    IF s = <<>> THEN s
    ELSE IF Head(s) \in Whitespace THEN LStrip(Tail(s)) ELSE s

RECURSIVE RStrip(_)
\* str.rstrip()
RStrip(s) ==
    IF s = <<>> THEN s
    ELSE IF s[Len(s)] \in Whitespace THEN RStrip(SubSeq(s, 1, Len(s) - 1)) ELSE s

\* str.strip()
Strip(s) == RStrip(LStrip(s))

RECURSIVE CutAt(_, _, _, _)
\* the pieces of s from offset from on, cut at the leftmost occurrences of a
\* separator of length m that do not overlap; hits: the offsets where the
\* separator occurs
CutAt(s, m, hits, from) ==
    LET ahead == { h \in hits : h >= from } IN
    IF ahead = {} THEN << SubSeq(s, from + 1, Len(s)) >>
    ELSE LET i == CHOOSE h \in ahead : \A g \in ahead : h <= g IN
         << SubSeq(s, from + 1, i) >> \o CutAt(s, m, hits, i + m)

\* str.split(sep)
SplitOn(s, sep) ==
    CutAt(s, Len(sep),
          { i \in 0..(Len(s) - Len(sep)) : \A j \in 1..Len(sep) : s[i + j] = sep[j] },
          0)

\* Path(p).name: what follows the last "/"
BaseName(p) ==
    LET slashes == { i \in 1..Len(p) : p[i] = "/" } IN
    IF slashes = {} THEN p
    ELSE SubSeq(p, (CHOOSE i \in slashes : \A j \in slashes : j <= i) + 1, Len(p))

\* f"{i}" for the one-digit numbers the model formats
IntText(i) == << <<"0","1","2","3","4","5","6","7","8","9">>[i + 1] >>

\* the function f on 1..n as the tuple of its values
Tuple(f) == f \o <<>>

RECURSIVE Flatten(_)
\* the concatenation of a sequence of sequences
Flatten(ss) == IF ss = <<>> THEN <<>> ELSE Head(ss) \o Flatten(Tail(ss))

RECURSIVE SeqsUpTo(_, _)
\* the sequences over S of length at most n
SeqsUpTo(S, n) ==
    IF n = 0 THEN { <<>> }
    ELSE LET shorter == SeqsUpTo(S, n - 1) IN
         shorter \cup { Append(q, x) : q \in shorter, x \in S }

Range(q) == { q[i] : i \in 1..Len(q) }

----------------------------------------------------------------------------
(* Documents *)

\* the files of the data directory: path and text, all of them readable
Files ==
    { [path |-> <<"d","/","k","8","s","-","s","e","c",".","t","x","t">>, text |-> <<"C","o","n","f","i","g","u","r","e"," ","R","B","A","C">>, readable |-> TRUE],
      [path |-> <<"d","/","d","e","p","l","o","y",".","y","m","l">>, text |-> <<" ","S","e","c","u","r","e"," ","p","i","p","e","l","i","n","e"," ">>, readable |-> TRUE] }

\* DocumentProcessor.process_text_file: the list of one Document, and the
\* empty list when opening, reading or decoding the file fails
ProcessTextFile(file) ==
    IF ~file.readable THEN <<>>
    ELSE << [page_content |-> file.text,
             metadata |-> [source |-> file.path,
                           type |-> "text",
                           category |-> CategorizeDocument(BaseName(file.path))]] >>

Documents == { ProcessTextFile(f)[1] : f \in Files }

----------------------------------------------------------------------------
(* The text splitter (RecursiveCharacterTextSplitter of langchain) *)

\* chunk_size and chunk_overlap of the text splitter
ChunkSize == 1000
ChunkOverlap == 200

\* separators of the text splitter: the strings are written "\\n\\n" and
\* "\\n" in the source, a backslash before each n, followed by the space and
\* the empty string
Separators == << <<"<bs>","n","<bs>","n">>, <<"<bs>","n">>, <<" ">>, <<>> >>

\* the one element of a set of one element
Only(S) == CHOOSE x \in S : TRUE

RECURSIVE Join(_, _)
\* separator.join(docs), joined half by half
Join(docs, separator) ==
    IF docs = <<>> THEN <<>>
    ELSE IF Len(docs) = 1 THEN docs[1]
    ELSE LET half == Len(docs) \div 2 IN
         Join(SubSeq(docs, 1, half), separator) \o separator
            \o Join(SubSeq(docs, half + 1, Len(docs)), separator)

\* _split_text_with_regex(text, separator, keep_separator=True): the text cut
\* at the separator, each separator kept at the head of the piece after it,
\* empty pieces dropped; the characters of the text for the empty separator
SplitKeeping(text, separator) ==
    IF separator = <<>> THEN Tuple([i \in 1..Len(text) |-> << text[i] >>])
    ELSE LET pieces == SplitOn(text, separator)
             splits == Tuple([k \in 1..Len(pieces) |->
                                IF k = 1 THEN pieces[k] ELSE separator \o pieces[k]])
         IN  SelectSeq(splits, LAMBDA s : s # <<>>)

\* _join_docs(docs, separator): the joined and stripped text as a list of one
\* chunk, and no chunk when nothing is left of it
JoinDocs(docs, separator) ==
    LET text == Strip(Join(docs, separator)) IN
    IF text = <<>> THEN <<>> ELSE << text >>

\* one round of the while loop of _merge_splits on w = (current_doc, total):
\* the head of current_doc leaves while more than chunk_overlap is held, or
\* while the next split of length len does not fit; sl: the length of the
\* separator
DropHead(w, len, sl) ==
    IF \/ w.total > ChunkOverlap
       \/ /\ w.total + len + (IF Len(w.current_doc) > 0 THEN sl ELSE 0) > ChunkSize
          /\ w.total > 0
    THEN [current_doc |-> Tail(w.current_doc),
          total |-> w.total - (Len(Head(w.current_doc))
                               + (IF Len(w.current_doc) > 1 THEN sl ELSE 0))]
    ELSE w

RECURSIVE DropRounds(_, _, _, _)
\* the while loop of _merge_splits, which ends within rounds rounds; the
\* rounds are run half by half
DropRounds(w, len, sl, rounds) ==
    IF rounds = 0 THEN w
    ELSE IF rounds = 1 THEN DropHead(w, len, sl)
    ELSE LET half == rounds \div 2 IN
         Only({ DropRounds(v, len, sl, rounds - half) :
                    v \in { DropRounds(w, len, sl, half) } })

\* the while loop of _merge_splits: it ends when current_doc is empty at the
\* latest
DropForOverlap(current_doc, total, len, sl) ==
    DropRounds([current_doc |-> current_doc, total |-> total], len, sl, Len(current_doc))

\* the body of the for loop of _merge_splits for the split d, on
\* m = (docs, current_doc, total)
MergeStep(m, d, separator) ==
    LET len == Len(d)
        sl == Len(separator)
        full == /\ m.total + len + (IF Len(m.current_doc) > 0 THEN sl ELSE 0) > ChunkSize
                /\ Len(m.current_doc) > 0
        kept == IF full THEN DropForOverlap(m.current_doc, m.total, len, sl)
                ELSE [current_doc |-> m.current_doc, total |-> m.total]
    IN  Only({ [docs |-> IF full THEN m.docs \o JoinDocs(m.current_doc, separator)
                         ELSE m.docs,
                current_doc |-> Append(w.current_doc, d),
                total |-> w.total + len + (IF Len(w.current_doc) > 0 THEN sl ELSE 0)] :
               w \in { kept } })

RECURSIVE MergeRange(_, _, _, _, _)
\* the for loop of _merge_splits over the splits lo..hi, run half by half
MergeRange(m, splits, separator, lo, hi) ==
    IF lo > hi THEN m
    ELSE IF lo = hi THEN MergeStep(m, splits[lo], separator)
    ELSE LET mid == (lo + hi) \div 2 IN
         Only({ MergeRange(left, splits, separator, mid + 1, hi) :
                    left \in { MergeRange(m, splits, separator, lo, mid) } })

\* _merge_splits(splits, separator): the chunks the loop made and the chunk
\* joined from what current_doc holds after it
MergeSplits(splits, separator) ==
    Only({ m.docs \o JoinDocs(m.current_doc, separator) :
             m \in { MergeRange([docs |-> <<>>, current_doc |-> <<>>, total |-> 0],
                                splits, separator, 1, Len(splits)) } })

\* the good splits merged, when there are any. The splits are merged with the
\* empty separator, since each split keeps its separator.
MergeGood(good_splits) ==
    IF good_splits # <<>> THEN MergeSplits(good_splits, <<>>) ELSE <<>>

RECURSIVE SplitTextWith(_, _)

\* the body of the for loop of _split_text for the split s, on
\* f = (final_chunks, good_splits): a split shorter than chunk_size waits to
\* be merged, a longer one is cut with the separators left
SplitStep(f, s, new_separators) ==
    IF Len(s) < ChunkSize THEN [f EXCEPT !.good_splits = Append(@, s)]
    ELSE [final_chunks |-> f.final_chunks \o MergeGood(f.good_splits)
                           \o (IF new_separators = <<>> THEN << s >>
                               ELSE SplitTextWith(s, new_separators)),
          good_splits |-> <<>>]

RECURSIVE SplitRange(_, _, _, _, _)
\* the for loop of _split_text over the splits lo..hi, run half by half
SplitRange(f, splits, new_separators, lo, hi) ==
    IF lo > hi THEN f
    ELSE IF lo = hi THEN SplitStep(f, splits[lo], new_separators)
    ELSE LET mid == (lo + hi) \div 2 IN
         Only({ SplitRange(left, splits, new_separators, mid + 1, hi) :
                    left \in { SplitRange(f, splits, new_separators, lo, mid) } })

\* _split_text(text, separators): the first separator that occurs in the text
\* cuts it (the empty one occurs in every text, the last one is taken when
\* none occurs), and a split of chunk_size or more is cut with the
\* separators after it
SplitTextWith(text, separators) ==
    LET found == { i \in 1..Len(separators) :
                      separators[i] = <<>> \/ Contains(text, separators[i]) }
        at == IF found = {} THEN Len(separators)
              ELSE CHOOSE i \in found : \A j \in found : i <= j
        new_separators == IF found = {} \/ separators[at] = <<>> THEN <<>>
                          ELSE SubSeq(separators, at + 1, Len(separators))
    IN  Only({ f.final_chunks \o MergeGood(f.good_splits) :
                 f \in { SplitRange([final_chunks |-> <<>>, good_splits |-> <<>>],
                                    splits, new_separators, 1, Len(splits)) :
                         splits \in { SplitKeeping(text, separators[at]) } } })

\* text_splitter.split_text(text)
SplitText(text) == SplitTextWith(text, Separators)

\* a plausible slip: the chunks get the default category in place of the
\* document's
SplitDocumentsUncategorised(doc) ==
    LET texts == SplitText(doc.page_content) IN
    Tuple([k \in 1..Len(texts) |->
             [page_content |-> texts[k],
              metadata |-> [doc.metadata EXCEPT !.category = "general"]]])

\* text_splitter.split_documents([doc]): the chunks of the document's text,
\* each with a copy of the document's metadata
SplitDocuments(doc) ==
    LET texts == SplitText(doc.page_content) IN
    Tuple([k \in 1..Len(texts) |->
             [page_content |-> texts[k], metadata |-> doc.metadata]])

\* f"doc_{i}"
ChunkId(i) == <<"doc_", i>>

\* ids = [f"doc_{i}" for i in range(len(chunks))]
ChunkIds(chunks) == Tuple([k \in 1..Len(chunks) |-> ChunkId(k - 1)])

----------------------------------------------------------------------------
(* The vector store (the collection of chromadb) *)

\* the two behaviours of collection.add for an id the collection holds
\* already: releases of the store either skip that entry or raise
DupPolicies == { "ignore", "raise" }

StoreIds(st) == { st[i].id : i \in 1..Len(st) }

\* the embedding function of a collection made and opened without an
\* embedding_function argument: the default one of the store
CollectionEmbeddingFunction == "chromadb_default"

\* self.embeddings of both classes, which no call of the store is given
OwnEmbeddings == "HuggingFaceEmbeddings(all-MiniLM-L6-v2)"

\* the entries of one batch: the texts are given as documents, so that the
\* collection embeds them with its own function
Batch(texts, metadatas, ids) ==
    Tuple([k \in 1..Len(ids) |->
             [id |-> ids[k], document |-> texts[k], metadata |-> metadatas[k],
              embedded_by |-> CollectionEmbeddingFunction]])

\* collection.add(documents, metadatas, ids): [raised, store]. A failing add
\* leaves the collection as it was.
CollectionAdd(st, policy, down, texts, metadatas, ids) ==
    LET batch == Batch(texts, metadatas, ids)
        fresh == SelectSeq(batch, LAMBDA e : e.id \notin StoreIds(st))
    IN  IF down THEN [raised |-> TRUE, store |-> st]
        ELSE IF policy = "raise" /\ Len(fresh) < Len(batch)
             THEN [raised |-> TRUE, store |-> st]
        ELSE [raised |-> FALSE, store |-> st \o fresh]

\* number of points of the embedding space of the model
EmbedPoints == 3

\* the store's embedding function: a fixed deterministic map of a text to a
\* point; the same map embeds stored texts and query texts
Embed(t) == Len(t) % EmbedPoints

\* the distance the store reports: squared L2
Distance(q, t) == (Embed(q) - Embed(t)) * (Embed(q) - Embed(t))

RECURSIVE InsertByDistance(_, _)
\* e put into the ascending sequence rs behind every entry at most as far
InsertByDistance(rs, e) ==
    IF rs = <<>> THEN <<e>>
    ELSE IF Head(rs).distance <= e.distance
         THEN <<Head(rs)>> \o InsertByDistance(Tail(rs), e)
         ELSE <<e>> \o rs

RECURSIVE SortByDistance(_)
\* ascending distance, entries at equal distance in the order given
SortByDistance(rs) ==
    IF rs = <<>> THEN <<>>
    ELSE InsertByDistance(SortByDistance(SubSeq(rs, 1, Len(rs) - 1)), rs[Len(rs)])

NoFilter == "*"

\* collection.query(query_texts=[q], n_results=n, where={"category": c}):
\* the n nearest entries among those the filter admits, nearest first
CollectionQuery(st, q, n, where) ==
    LET admitted == SelectSeq(st, LAMBDA e :
                        where = NoFilter \/ e.metadata.category = where)
        scored == Tuple([k \in 1..Len(admitted) |->
                           [document |-> admitted[k].document,
                            metadata |-> admitted[k].metadata,
                            distance |-> Distance(q, admitted[k].document)]])
    IN  Take(SortByDistance(scored), n)

----------------------------------------------------------------------------
(* DocumentProcessor.ingest_documents *)

\* a plausible slip: no try/except around the add, so a failing add raises
\* out of ingest_documents
IngestDocumentsPropagating(st, policy, docs, down) ==
    IF docs = <<>>
    THEN [store |-> st, ids |-> <<>>, texts |-> <<>>, metadatas |-> <<>>,
          addAttempts |-> 0, addFailed |-> FALSE, raised |-> FALSE]
    ELSE LET chunks == Flatten([k \in 1..Len(docs) |-> SplitDocuments(docs[k])])
             texts == Tuple([k \in 1..Len(chunks) |-> chunks[k].page_content])
             metadatas == Tuple([k \in 1..Len(chunks) |-> chunks[k].metadata])
             ids == ChunkIds(chunks)
             added == CollectionAdd(st, policy, down, texts, metadatas, ids)
         IN  [store |-> added.store, ids |-> ids, texts |-> texts,
              metadatas |-> metadatas, addAttempts |-> 1,
              addFailed |-> added.raised, raised |-> added.raised]

\* a plausible slip: the numbering carried on from the size of the collection
IngestDocumentsContinuing(st, policy, docs, down) ==
    IF docs = <<>>
    THEN [store |-> st, ids |-> <<>>, texts |-> <<>>, metadatas |-> <<>>,
          addAttempts |-> 0, addFailed |-> FALSE, raised |-> FALSE]
    ELSE LET chunks == Flatten([k \in 1..Len(docs) |-> SplitDocuments(docs[k])])
             texts == Tuple([k \in 1..Len(chunks) |-> chunks[k].page_content])
             metadatas == Tuple([k \in 1..Len(chunks) |-> chunks[k].metadata])
             ids == Tuple([k \in 1..Len(chunks) |-> ChunkId(Len(st) + k - 1)])
             added == CollectionAdd(st, policy, down, texts, metadatas, ids)
         IN  [store |-> added.store, ids |-> ids, texts |-> texts,
              metadatas |-> metadatas, addAttempts |-> 1,
              addFailed |-> added.raised, raised |-> FALSE]

\* ingest_documents(documents) on the collection st; down: the store fails the
\* add. The result: the collection afterwards, the ids, texts and metadatas
\* handed to the add, the number of add calls made, whether the add failed,
\* whether the call raised.
IngestDocuments(st, policy, docs, down) ==
    IF docs = <<>>
    THEN [store |-> st, ids |-> <<>>, texts |-> <<>>, metadatas |-> <<>>,
          addAttempts |-> 0, addFailed |-> FALSE, raised |-> FALSE]
    ELSE LET chunks == Flatten([k \in 1..Len(docs) |-> SplitDocuments(docs[k])])
             texts == Tuple([k \in 1..Len(chunks) |-> chunks[k].page_content])
             metadatas == Tuple([k \in 1..Len(chunks) |-> chunks[k].metadata])
             ids == ChunkIds(chunks)
             added == CollectionAdd(st, policy, down, texts, metadatas, ids)
         IN  [store |-> added.store, ids |-> ids, texts |-> texts,
              metadatas |-> metadatas, addAttempts |-> 1,
              addFailed |-> added.raised, raised |-> FALSE]

----------------------------------------------------------------------------
(* DevSecOpsRAG.retrieve_context and search_by_category *)

\* a plausible slip: the score clamped at 0
ContextOfClamped(r) ==
    [content |-> r.document, metadata |-> r.metadata,
     relevance_score |-> IF 1 - r.distance < 0 THEN 0 ELSE 1 - r.distance]

\* the context built from one result of the store
ContextOf(r) ==
    [content |-> r.document, metadata |-> r.metadata,
     relevance_score |-> 1 - r.distance]

\* a plausible slip: no try/except, the store's exception propagates
RetrieveContextPropagating(st, query, n, down) ==
    IF down THEN [raised |-> TRUE, contexts |-> <<>>, embedded_by |-> "none"]
    ELSE LET results == CollectionQuery(st, query, n, NoFilter) IN
         [raised |-> FALSE,
          contexts |-> Tuple([i \in 1..Len(results) |-> ContextOf(results[i])]),
          embedded_by |-> CollectionEmbeddingFunction]

\* a plausible slip: the query embedded with self.embeddings and handed to
\* the store as query_embeddings
RetrieveContextOwnEmbeddings(st, query, n, down) ==
    IF down THEN [raised |-> FALSE, contexts |-> <<>>, embedded_by |-> "none"]
    ELSE LET results == CollectionQuery(st, query, n, NoFilter) IN
         [raised |-> FALSE,
          contexts |-> Tuple([i \in 1..Len(results) |-> ContextOf(results[i])]),
          embedded_by |-> OwnEmbeddings]

\* retrieve_context(query, n_results); down: the store's query raises.
\* embedded_by: the function that embedded the query: the text is given as
\* query_texts, so that the collection embeds it with its own function
RetrieveContext(st, query, n, down) ==
    IF down THEN [raised |-> FALSE, contexts |-> <<>>, embedded_by |-> "none"]
    ELSE LET results == CollectionQuery(st, query, n, NoFilter) IN
         [raised |-> FALSE,
          contexts |-> Tuple([i \in 1..Len(results) |-> ContextOf(results[i])]),
          embedded_by |-> CollectionEmbeddingFunction]

\* a plausible slip: the where filter left out of the store query
SearchByCategoryUnfiltered(st, query, category, n, down) ==
    IF down THEN [raised |-> FALSE, contexts |-> <<>>, embedded_by |-> "none"]
    ELSE LET results == CollectionQuery(st, query, n * 2, NoFilter)
             m == IF n < Len(results) THEN n ELSE Len(results)
         IN  [raised |-> FALSE,
              contexts |-> Tuple([i \in 1..m |-> ContextOf(results[i])]),
              embedded_by |-> CollectionEmbeddingFunction]

\* search_by_category(query, category, n_results)
SearchByCategory(st, query, category, n, down) ==
    IF down THEN [raised |-> FALSE, contexts |-> <<>>, embedded_by |-> "none"]
    ELSE LET results == CollectionQuery(st, query, n * 2, category)
             m == IF n < Len(results) THEN n ELSE Len(results)
         IN  [raised |-> FALSE,
              contexts |-> Tuple([i \in 1..m |-> ContextOf(results[i])]),
              embedded_by |-> CollectionEmbeddingFunction]

----------------------------------------------------------------------------
(* DevSecOpsRAG.prepare_context_string and generate_response *)

\* the literal two-character sequence backslash, n that the code writes as '\\n'
BackslashN == <<"<bs>","n">>

NoContextText == <<"N","o"," ","r","e","l","e","v","a","n","t"," ","c","o","n","t","e","x","t"," ","f","o","u","n","d"," ","i","n"," ","M","o","s","e","s","'","s"," ","k","n","o","w","l","e","d","g","e"," ","b","a","s","e",".">>
NoContextMarker == <<"N","o"," ","r","e","l","e","v","a","n","t"," ","c","o","n","t","e","x","t">>
ContextHeader == <<"R","E","L","E","V","A","N","T"," ","K","N","O","W","L","E","D","G","E"," ","F","R","O","M"," ","M","O","S","E","S","'","S"," ","E","X","P","E","R","T","I","S","E",":","<bs>","n","<bs>","n">>

Categories ==
    { "security", "cicd", "infrastructure", "ai_engineering", "cloud_certification",
      "professional_profile", "project_documentation", "general" }

\* category.replace('_', ' ').title() on the categories
CategoryTitle(c) ==
    CASE c = "security" -> <<"S","e","c","u","r","i","t","y">>
      [] c = "cicd" -> <<"C","i","c","d">>
      [] c = "infrastructure" -> <<"I","n","f","r","a","s","t","r","u","c","t","u","r","e">>
      [] c = "ai_engineering" -> <<"A","i"," ","E","n","g","i","n","e","e","r","i","n","g">>
      [] c = "cloud_certification" -> <<"C","l","o","u","d"," ","C","e","r","t","i","f","i","c","a","t","i","o","n">>
      [] c = "professional_profile" -> <<"P","r","o","f","e","s","s","i","o","n","a","l"," ","P","r","o","f","i","l","e">>
      [] c = "project_documentation" -> <<"P","r","o","j","e","c","t"," ","D","o","c","u","m","e","n","t","a","t","i","o","n">>
      [] OTHER -> <<"G","e","n","e","r","a","l">>

\* the block of one context: its header line and its text
ContextBlock(i, ctx) ==
    <<"[","S","o","u","r","c","e"," ">> \o IntText(i) \o <<" ","-"," ">> \o CategoryTitle(ctx.metadata.category)
    \o <<"]"," ","(">> \o BaseName(ctx.metadata.source) \o <<")",":","<bs>","n">>
    \o ctx.content \o <<"<bs>","n","<bs>","n">>

\* a plausible slip: the header alone is returned for an empty context list
PrepareContextStringNoGuard(contexts) ==
    ContextHeader \o Flatten([i \in 1..Len(contexts) |-> ContextBlock(i, contexts[i])])

\* prepare_context_string(contexts)
PrepareContextString(contexts) ==
    IF contexts = <<>> THEN NoContextText
    ELSE ContextHeader
         \o Flatten([i \in 1..Len(contexts) |-> ContextBlock(i, contexts[i])])

KeyPointKeywords ==
    { <<"s","e","c","u","r","i","t","y">>, <<"i","m","p","l","e","m","e","n","t">>, <<"d","e","p","l","o","y">>, <<"c","o","n","f","i","g","u","r","e">>, <<"b","e","s","t"," ","p","r","a","c","t","i","c","e">> }
\* lines kept, and characters kept of each
KeyPointLimit == 3
KeyPointWidth == 200
KeyPointsFallback ==
    << <<"R","e","l","e","v","a","n","t"," ","t","e","c","h","n","i","c","a","l"," ","d","o","c","u","m","e","n","t","a","t","i","o","n"," ","a","n","d"," ","i","m","p","l","e","m","e","n","t","a","t","i","o","n"," ","g","u","i","d","e","s"," ","a","v","a","i","l","a","b","l","e">> >>

\* _extract_key_points(context): the bullets, each without its bullet sign.
\* The loop appends matching lines and breaks at the limit: the first
\* KeyPointLimit matching lines.
ExtractKeyPoints(context) ==
    LET lines == SplitOn(context, BackslashN)
        kept == SelectSeq(lines, LAMBDA line :
                    /\ Strip(line) # <<>>
                    /\ ~StartsWith(line, <<"R","E","L","E","V","A","N","T"," ","K","N","O","W","L","E","D","G","E">>)
                    /\ ~StartsWith(line, <<"[","S","o","u","r","c","e">>)
                    /\ AnyIn(Lower(line), KeyPointKeywords))
        key_points == Tuple([k \in 1..Len(Take(kept, KeyPointLimit)) |->
                                Take(Strip(kept[k]), KeyPointWidth)])
    IN  IF key_points # <<>> THEN key_points ELSE KeyPointsFallback

SecurityKeywords ==
    { <<"s","e","c","u","r","i","t","y">>, <<"s","e","c","u","r","e">>, <<"v","u","l","n","e","r","a","b","i","l","i","t","y">>, <<"t","h","r","e","a","t">>, <<"r","i","s","k">>, <<"c","o","m","p","l","i","a","n","c","e">>,
      <<"a","u","d","i","t">> }
SecurityPointLimit == 2
SecurityPointWidth == 150
SecurityPointsFallback ==
    << <<"A","l","w","a","y","s"," ","p","r","i","o","r","i","t","i","z","e"," ","s","e","c","u","r","i","t","y"," ","i","n"," ","i","m","p","l","e","m","e","n","t","a","t","i","o","n">>,
       <<"R","e","g","u","l","a","r"," ","s","e","c","u","r","i","t","y"," ","r","e","v","i","e","w","s"," ","a","n","d"," ","u","p","d","a","t","e","s"," ","r","e","c","o","m","m","e","n","d","e","d">> >>

\* a plausible slip: the header lines of the sources are not left out
ExtractSecurityPointsWithHeaders(context) ==
    LET lines == SplitOn(context, BackslashN)
        kept == SelectSeq(lines, LAMBDA line :
                    /\ AnyIn(Lower(line), SecurityKeywords)
                    /\ Strip(line) # <<>>)
        security_points == Tuple([k \in 1..Len(Take(kept, SecurityPointLimit)) |->
                                     Take(Strip(kept[k]), SecurityPointWidth)])
    IN  IF security_points # <<>> THEN security_points ELSE SecurityPointsFallback

\* _extract_security_points(context)
ExtractSecurityPoints(context) ==
    LET lines == SplitOn(context, BackslashN)
        kept == SelectSeq(lines, LAMBDA line :
                    /\ AnyIn(Lower(line), SecurityKeywords)
                    /\ Strip(line) # <<>>
                    /\ ~StartsWith(Strip(line), <<"[","S","o","u","r","c","e">>))
        security_points == Tuple([k \in 1..Len(Take(kept, SecurityPointLimit)) |->
                                     Take(Strip(kept[k]), SecurityPointWidth)])
    IN  IF security_points # <<>> THEN security_points ELSE SecurityPointsFallback

RecKubernetes ==
    << "Implement RBAC and network policies", "Use Pod Security Standards",
       "Regular security scanning of container images",
       "Monitor cluster activity with audit logging" >>
RecCicd ==
    << "Integrate SAST/DAST tools in pipeline", "Use secure secrets management",
       "Implement branch protection rules",
       "Automated security testing at each stage" >>
RecAws ==
    << "Follow AWS Well-Architected Security Pillar",
       "Implement least privilege IAM policies", "Enable CloudTrail and GuardDuty",
       "Use AWS Config for compliance monitoring" >>
RecAiMl ==
    << "Implement MLSecOps practices", "Secure model training pipelines",
       "Monitor for model drift and bias", "Protect sensitive training data" >>
RecGeneric ==
    << "Follow security-first development practices",
       "Implement proper monitoring and logging",
       "Regular security assessments and updates",
       "Documentation and knowledge sharing" >>

\* a plausible slip: the CI/CD test placed before the Kubernetes test
GenerateRecommendationsReordered(query, context) ==
    LET query_lower == Lower(query) IN
    IF Contains(query_lower, <<"c","i","/","c","d">>) \/ Contains(query_lower, <<"p","i","p","e","l","i","n","e">>)
    THEN RecCicd
    ELSE IF Contains(query_lower, <<"k","u","b","e","r","n","e","t","e","s">>) \/ Contains(query_lower, <<"k","8","s">>)
    THEN RecKubernetes
    ELSE IF Contains(query_lower, <<"a","w","s">>) \/ Contains(query_lower, <<"c","l","o","u","d">>)
    THEN RecAws
    ELSE IF \/ Contains(query_lower, <<"a","i">>) \/ Contains(query_lower, <<"m","l">>)
            \/ Contains(query_lower, <<"m","o","d","e","l">>)
    THEN RecAiMl
    ELSE RecGeneric

\* a plausible slip: the keywords looked for in the context as well
GenerateRecommendationsFromContext(query, context) ==
    LET query_lower == Lower(query \o <<" ">> \o context) IN
    IF Contains(query_lower, <<"k","u","b","e","r","n","e","t","e","s">>) \/ Contains(query_lower, <<"k","8","s">>)
    THEN RecKubernetes
    ELSE IF Contains(query_lower, <<"c","i","/","c","d">>) \/ Contains(query_lower, <<"p","i","p","e","l","i","n","e">>)
    THEN RecCicd
    ELSE IF Contains(query_lower, <<"a","w","s">>) \/ Contains(query_lower, <<"c","l","o","u","d">>)
    THEN RecAws
    ELSE IF \/ Contains(query_lower, <<"a","i">>) \/ Contains(query_lower, <<"m","l">>)
            \/ Contains(query_lower, <<"m","o","d","e","l">>)
    THEN RecAiMl
    ELSE RecGeneric

\* _generate_recommendations(query, context)
GenerateRecommendations(query, context) ==
    LET query_lower == Lower(query) IN
    IF Contains(query_lower, <<"k","u","b","e","r","n","e","t","e","s">>) \/ Contains(query_lower, <<"k","8","s">>)
    THEN RecKubernetes
    ELSE IF Contains(query_lower, <<"c","i","/","c","d">>) \/ Contains(query_lower, <<"p","i","p","e","l","i","n","e">>)
    THEN RecCicd
    ELSE IF Contains(query_lower, <<"a","w","s">>) \/ Contains(query_lower, <<"c","l","o","u","d">>)
    THEN RecAws
    ELSE IF \/ Contains(query_lower, <<"a","i">>) \/ Contains(query_lower, <<"m","l">>)
            \/ Contains(query_lower, <<"m","o","d","e","l">>)
    THEN RecAiMl
    ELSE RecGeneric

\* the canned sentence returned when there is nothing to answer from: it has
\* no section
NoInformationAnswer ==
    [kind |-> "no_information", question |-> <<>>, key_points |-> <<>>,
     recommendations |-> <<>>, security_points |-> <<>>]

\* generate_response(query, context): the answer as its parts, the question
\* quoted in its first line and the three sections
GenerateResponse(query, context) ==
    IF Contains(context, NoContextMarker) THEN NoInformationAnswer
    ELSE [kind |-> "structured",
          question |-> query,
          key_points |-> ExtractKeyPoints(context),
          recommendations |-> GenerateRecommendations(query, context),
          security_points |-> ExtractSecurityPoints(context)]

\* query(question, n_contexts), without the processing time
QueryRag(st, question, n, down) ==
    LET retrieved == RetrieveContext(st, question, n, down)
        contexts == retrieved.contexts
        context_string == PrepareContextString(contexts)
        answer == GenerateResponse(question, context_string)
    IN  IF retrieved.raised
        THEN [raised |-> TRUE, answer |-> NoInformationAnswer, contexts |-> <<>>,
              sources_used |-> 0]
        ELSE [raised |-> FALSE, answer |-> answer, contexts |-> contexts,
              sources_used |-> Len(contexts)]
----------------------------------------------------------------------------
(* The normalizers of the other file types *)

\* pages of a PDF file, paragraphs of a Word file, entries of a repository
MaxPages == 2
MaxRepoFiles == 2

\* str.endswith
EndsWith(s, t) == Len(t) <= Len(s) /\ SubSeq(s, Len(s) - Len(t) + 1, Len(s)) = t

\* Path(p).suffix: the last dot of the name and what follows it
Suffix(p) ==
    LET name == BaseName(p)
        dots == { i \in 2..Len(name) : name[i] = "." }
    IN  IF dots = {} THEN <<>>
        ELSE SubSeq(name, CHOOSE i \in dots : \A j \in dots : j <= i, Len(name))

\* a page of a PDF file: extract_text() returns its text or raises
Pages == { [ok |-> TRUE, text |-> <<"A","W","S">>], [ok |-> FALSE, text |-> <<"K","8","s">>] }

\* PDF files on disk: open and PdfReader succeed or fail
PdfFiles ==
    { [path |-> <<"d","/","r","e","s","u","m","e",".","p","d","f">>, readable |-> r, parts |-> ps] :
        r \in BOOLEAN, ps \in SeqsUpTo(Pages, MaxPages) }

\* process_pdf(file_path)
ProcessPdf(file) ==
    IF ~file.readable \/ \E k \in 1..Len(file.parts) : ~file.parts[k].ok THEN <<>>
    ELSE << [page_content |->
                Flatten([k \in 1..Len(file.parts) |->
                            file.parts[k].text \o BackslashN]),
             metadata |-> [source |-> file.path,
                           type |-> "pdf",
                           category |-> CategorizeDocument(BaseName(file.path)),
                           pages |-> Len(file.parts)]] >>

\* Word files on disk: docx.Document succeeds or fails; paragraph.text is an
\* attribute read
DocxFiles ==
    { [path |-> <<"d","/","p","r","o","j","e","c","t",".","d","o","c","x">>, readable |-> r, parts |-> ps] :
        r \in BOOLEAN, ps \in SeqsUpTo({ [ok |-> TRUE, text |-> <<"D","e","p","l","o","y">>] }, MaxPages) }

\* process_docx(file_path)
ProcessDocx(file) ==
    IF ~file.readable THEN <<>>
    ELSE << [page_content |->
                Flatten([k \in 1..Len(file.parts) |->
                            file.parts[k].text \o BackslashN]),
             metadata |-> [source |-> file.path,
                           type |-> "docx",
                           category |-> CategorizeDocument(BaseName(file.path)),
                           paragraphs |-> Len(file.parts)]] >>

\* BeautifulSoup(markdown.markdown(t)).get_text() of a one-line text: a
\* heading loses its marker, emphasis its asterisks, and the paragraph the
\* blanks around it
MarkdownText(t) ==
    LET line == Strip(t)
        body == IF StartsWith(line, <<"#"," ">>) THEN Strip(SubSeq(line, 3, Len(line)))
                ELSE line
    IN  SelectSeq(body, LAMBDA c : c # "*")

\* Markdown files on disk
MarkdownFiles ==
    { [path |-> <<"d","/","R","E","A","D","M","E",".","m","d">>, readable |-> r, text |-> t] :
        r \in BOOLEAN, t \in { <<"#"," ","D","e","p","l","o","y">>, <<" ","*","S","e","c","u","r","e","*"," ","k","8","s">> } }

\* process_markdown(file_path)
ProcessMarkdown(file) ==
    IF ~file.readable THEN <<>>
    ELSE << [page_content |-> MarkdownText(file.text),
             metadata |-> [source |-> file.path,
                           type |-> "markdown",
                           category |-> CategorizeDocument(BaseName(file.path)),
                           original_format |-> "markdown"]] >>

\* text files on disk
TextFiles ==
    { [path |-> f.path, text |-> f.text, readable |-> r] : f \in Files, r \in BOOLEAN }

----------------------------------------------------------------------------
(* process_github_repo *)

\* repo_url.split('/')[-1].replace('.git', '')
RepoName(repo_url) ==
    LET pieces == SplitOn(repo_url, <<"/">>) IN
    Flatten(SplitOn(pieces[Len(pieces)], <<".","g","i","t">>))

RepoUrls == { <<"g","h","/","i","n","f","r","a",".","g","i","t">>, <<"g","h","/","d","o","c","s">> }

\* what git does: the clone or pull succeeds, fails, or fails with the clone
\* directory left behind
GitOutcomes == { "ok", "fails", "fails_leaving_path" }

\* size in bytes from which a configuration file is skipped
ConfigSizeCeiling == 50000

ConfigExtensions == << <<".","y","m","l">>, <<".","y","a","m","l">>, <<".","j","s","o","n">>, <<".","t","o","m","l">>, <<".","c","f","g">> >>

\* the files a working tree may hold, in the order rglob meets them: stat()
\* of a file succeeds or raises (a link to nothing), and reports its size
RepoListing ==
    << [path |-> <<"r","/","R","E","A","D","M","E",".","m","d">>, text |-> <<"#"," ","D","e","p","l","o","y">>, readable |-> TRUE,
        stats |-> TRUE, size |-> 8],
       [path |-> <<"r","/","N","O","T","E","S",".","m","d">>, text |-> <<"k","8","s">>, readable |-> FALSE,
        stats |-> TRUE, size |-> 3],
       [path |-> <<"r","/","c","i",".","y","m","l">>, text |-> <<"o","n",":"," ","p","u","s","h">>, readable |-> TRUE,
        stats |-> TRUE, size |-> 8],
       [path |-> <<"r","/","l","i","n","k",".","j","s","o","n">>, text |-> <<>>, readable |-> FALSE,
        stats |-> FALSE, size |-> 0],
       [path |-> <<"r","/","l","o","c","k",".","j","s","o","n">>, text |-> <<"{","}">>, readable |-> TRUE,
        stats |-> TRUE, size |-> ConfigSizeCeiling] >>

\* the working trees: those holding up to MaxRepoFiles of the files
RepoTrees ==
    { SelectSeq(RepoListing, LAMBDA e : e \in held) :
        held \in { h \in SUBSET Range(RepoListing) : Cardinality(h) <= MaxRepoFiles } }

\* doc.metadata[key] = value for each of the added keys
Tagged(docs, added) ==
    Tuple([k \in 1..Len(docs) |->
             [page_content |-> docs[k].page_content,
              metadata |-> [key \in DOMAIN docs[k].metadata \cup DOMAIN added |->
                               IF key \in DOMAIN added THEN added[key]
                               ELSE docs[k].metadata[key]]]])

RECURSIVE WalkConfig(_, _, _)
\* the loop over the configuration files: [documents, failed]. stat()
\* raising ends the loop with the documents collected so far
WalkConfig(entries, added, documents) ==
    IF entries = <<>> THEN [documents |-> documents, failed |-> FALSE]
    ELSE IF ~Head(entries).stats THEN [documents |-> documents, failed |-> TRUE]
    ELSE IF Head(entries).size < ConfigSizeCeiling
         THEN WalkConfig(Tail(entries), added,
                         documents \o Tagged(ProcessTextFile(Head(entries)), added))
         ELSE WalkConfig(Tail(entries), added, documents)

\* a plausible slip: the repository cloned on every run
ProcessGithubRepoRecloning(repo_url, exists, outcome, tree) ==
    [raised |-> FALSE, branch |-> "clone", documents |-> <<>>, failed |-> TRUE,
     exists |-> TRUE]

\* process_github_repo(repo_url): exists: the clone path exists; outcome: what
\* git does; tree: the working tree after it.
\* [raised, branch, documents, failed, exists]: the branch taken, the
\* Documents returned, whether clone, pull or walk failed, and whether the
\* clone path exists afterwards
ProcessGithubRepo(repo_url, exists, outcome, tree) ==
    LET repo_name == RepoName(repo_url)
        branch == IF exists THEN "update" ELSE "clone"
        tags == [repo |-> repo_name, repo_url |-> repo_url]
        markdown == SelectSeq(tree, LAMBDA e : EndsWith(BaseName(e.path), <<".","m","d">>))
        from_markdown ==
            Flatten([k \in 1..Len(markdown) |->
                        Tagged(ProcessMarkdown(markdown[k]), tags)])
        config ==
            Flatten([x \in 1..Len(ConfigExtensions) |->
                        SelectSeq(tree, LAMBDA e :
                            EndsWith(BaseName(e.path), ConfigExtensions[x]))])
        walked == WalkConfig(config,
                             [repo |-> repo_name, repo_url |-> repo_url,
                              file_type |-> "configuration"],
                             from_markdown)
    IN  IF outcome # "ok"
        THEN [raised |-> FALSE, branch |-> branch, documents |-> <<>>,
              failed |-> TRUE,
              exists |-> exists \/ outcome = "fails_leaving_path"]
        ELSE [raised |-> FALSE, branch |-> branch, documents |-> walked.documents,
              failed |-> walked.failed, exists |-> TRUE]

----------------------------------------------------------------------------
(* process_directory *)

\* files of one directory
MaxDirFiles == 2

\* file_processors[suffix](file_path), and no Document for a suffix that is
\* not a key of file_processors
FileProcessor(suffix, file) ==
    CASE suffix = <<".","p","d","f">> -> ProcessPdf(file)
      [] suffix \in { <<".","d","o","c","x">>, <<".","d","o","c">> } -> ProcessDocx(file)
      [] suffix = <<".","m","d">> -> ProcessMarkdown(file)
      [] suffix \in { <<".","t","x","t">>, <<".","y","a","m","l">>, <<".","y","m","l">>, <<".","j","s","o","n">> } -> ProcessTextFile(file)
      [] OTHER -> <<>>

\* the files a directory may hold, in the order rglob("*") meets them
DirListing ==
    << [path |-> <<"d","/","k","8","s","-","s","e","c",".","t","x","t">>, text |-> <<"C","o","n","f","i","g","u","r","e"," ","R","B","A","C">>, readable |-> TRUE],
       [path |-> <<"d","/","o","l","d",".","T","X","T">>, text |-> <<"D","e","p","l","o","y">>, readable |-> FALSE],
       [path |-> <<"d","/","r","e","s","u","m","e",".","p","d","f">>, readable |-> TRUE,
        parts |-> << [ok |-> FALSE, text |-> <<"K","8","s">>] >>],
       [path |-> <<"d","/","R","E","A","D","M","E",".","m","d">>, text |-> <<"#"," ","D","e","p","l","o","y">>, readable |-> TRUE],
       [path |-> <<"d","/","l","o","g","o",".","p","n","g">>, text |-> <<"P","N","G">>, readable |-> TRUE] >>

\* the directories: one that does not exist, and those holding up to
\* MaxDirFiles of the files
Directories ==
    { [exists |-> FALSE, files |-> <<>>] }
        \cup { [exists |-> TRUE,
                files |-> SelectSeq(DirListing, LAMBDA f : f \in held)] :
                 held \in { h \in SUBSET Range(DirListing) :
                              Cardinality(h) <= MaxDirFiles } }

\* a plausible slip: the walk ends at the first file that gives no Document
ProcessDirectoryStopping(st, policy, dir, down) ==
    LET per_file == Tuple([k \in 1..Len(dir.files) |->
                             FileProcessor(Lower(Suffix(dir.files[k].path)),
                                           dir.files[k])])
        stops == { k \in 1..Len(per_file) : per_file[k] = <<>> }
        upto == IF stops = {} THEN Len(per_file)
                ELSE (CHOOSE k \in stops : \A j \in stops : k <= j) - 1
        all_documents == Flatten(SubSeq(per_file, 1, upto))
        ingested == IngestDocuments(st, policy, all_documents, down)
    IN  [raised |-> FALSE, documents |-> all_documents,
         ingests |-> IF all_documents = <<>> THEN 0 ELSE 1,
         store |-> ingested.store, ids |-> ingested.ids]

\* process_directory(directory_path): [raised, documents, ingests, store, ids]:
\* the Documents collected, the number of ingest_documents calls, the
\* collection afterwards and the ids the ingestion gave
ProcessDirectory(st, policy, dir, down) ==
    IF ~dir.exists
    THEN [raised |-> FALSE, documents |-> <<>>, ingests |-> 0, store |-> st,
          ids |-> <<>>]
    ELSE LET all_documents ==
                 Flatten([k \in 1..Len(dir.files) |->
                             FileProcessor(Lower(Suffix(dir.files[k].path)),
                                           dir.files[k])])
             ingested == IngestDocuments(st, policy, all_documents, down)
         IN  IF all_documents # <<>>
             THEN [raised |-> ingested.raised, documents |-> all_documents,
                   ingests |-> 1, store |-> ingested.store, ids |-> ingested.ids]
             ELSE [raised |-> FALSE, documents |-> <<>>, ingests |-> 0,
                   store |-> st, ids |-> <<>>]

----------------------------------------------------------------------------
(* get_knowledge_base_info and get_expertise_summary *)

\* entries of the store whose metadata are looked at
SampleLimit == 100

\* the categories in the order sorted() puts them
SortedCategories ==
    << "ai_engineering", "cicd", "cloud_certification", "general", "infrastructure",
       "professional_profile", "project_documentation", "security" >>

\* a plausible slip: count() and get() guarded one by one, so that a failing
\* get() leaves the count in the answer
GetKnowledgeBaseInfoPartial(st, down) ==
    [total_documents |-> Len(st), categories |-> <<>>,
     status |-> IF down THEN "error" ELSE "active"]

\* get_knowledge_base_info(); down: the store fails count() or get()
GetKnowledgeBaseInfo(st, down) ==
    IF down THEN [total_documents |-> 0, categories |-> <<>>, status |-> "error"]
    ELSE LET sample == Take(st, SampleLimit)
             categories == { sample[k].metadata.category : k \in 1..Len(sample) }
         IN  [total_documents |-> Len(st),
              categories |-> SelectSeq(SortedCategories, LAMBDA c : c \in categories),
              status |-> "active"]

\* get_expertise_summary(): the fixed text, and the knowledge-base line with
\* the number of entries when there are any
GetExpertiseSummary(st, down) ==
    LET categories_info == GetKnowledgeBaseInfo(st, down) IN
    [text |-> "Moses Omondi is a DevSecOps and AI Engineering expert",
     knowledge_base |-> IF categories_info.total_documents > 0
                        THEN << categories_info.total_documents >>
                        ELSE <<>>]

----------------------------------------------------------------------------
(* The query endpoints of api_service *)

\* queries the API answers in a run of the model
MaxQueries == 1

QueryEndpoints == { "/query", "/query/technical", "/query/career", "/query/projects" }

\* the text a specialized endpoint puts before the question
EndpointPrefix(endpoint) ==
    CASE endpoint = "/query/technical" ->
            <<"F","r","o","m"," ","a"," ","t","e","c","h","n","i","c","a","l"," ","i","m","p","l","e","m","e","n","t","a","t","i","o","n"," ","p","e","r","s","p","e","c","t","i","v","e",":"," ">>
      [] endpoint = "/query/career" ->
            <<"R","e","g","a","r","d","i","n","g"," ","M","o","s","e","s","'","s"," ","p","r","o","f","e","s","s","i","o","n","a","l"," ","b","a","c","k","g","r","o","u","n","d"," ","a","n","d"," ","c","a","r","e","e","r",":"," ">>
      [] endpoint = "/query/projects" ->
            <<"A","b","o","u","t"," ","M","o","s","e","s","'","s"," ","p","r","o","j","e","c","t","s"," ","a","n","d"," ","i","m","p","l","e","m","e","n","t","a","t","i","o","n","s",":"," ">>
      [] OTHER -> <<>>

\* characters of a source's content the response carries
SourceContentLimit == 500

\* Source(content=..., metadata=..., relevance_score=...) of one context
SourceOf(ctx) ==
    [content |-> IF Len(ctx.content) > SourceContentLimit
                 THEN Take(ctx.content, SourceContentLimit) \o <<".",".",".">>
                 ELSE ctx.content,
     metadata |-> ctx.metadata,
     relevance_score |-> ctx.relevance_score]

\* the response that carries no answer
Rejected(status) ==
    [http |-> status, core_calls |-> 0, core_question |-> <<>>, counted |-> 0,
     answer |-> NoInformationAnswer, sources_used |-> 0, sources |-> <<>>]

\* query_technical, query_career, query_projects and query_assistant: the
\* specialized endpoints put their text before the question and hand the
\* request to query_assistant.
\* ready: rag_system is set; st: the collection. The response carries no
\* sources when they are not asked for.
QueryEndpoint(ready, st, endpoint, question, context_count, include_sources) ==
    LET enhanced == EndpointPrefix(endpoint) \o question
        result == QueryRag(st, enhanced, context_count, FALSE)
    IN  IF ~ready THEN Rejected(503)
        ELSE IF Strip(enhanced) = <<>> THEN Rejected(400)
        ELSE IF result.raised
             THEN [Rejected(500) EXCEPT !.core_calls = 1, !.core_question = enhanced]
        ELSE [http |-> 200, core_calls |-> 1, core_question |-> enhanced,
              counted |-> 1, answer |-> result.answer,
              sources_used |-> result.sources_used,
              sources |-> IF include_sources
                          THEN Tuple([k \in 1..Len(result.contexts) |->
                                         SourceOf(result.contexts[k])])
                          ELSE <<>>]

----------------------------------------------------------------------------
(* The calls on one store *)

\* the document sequences handed to ingest_documents
DocumentLists == SeqsUpTo(Documents, MaxDocs)

\* the questions asked of the store
Questions == { <<>>, <<"I","s"," ","k","8","s"," ","s","e","c","u","r","e","?">> }

\* the categories searched in
SearchCategories == { "security", "cicd", "general" }

\* the record of a call: the fields a call does not use keep these values
NoCall ==
    [op |-> "none", raised |-> FALSE, down |-> FALSE,
     docs |-> <<>>, ids |-> <<>>, texts |-> <<>>, metadatas |-> <<>>,
     addAttempts |-> 0, addFailed |-> FALSE,
     reused |-> {}, before |-> <<>>, repeat |-> FALSE,
     query |-> <<>>, n |-> 0, where |-> NoFilter,
     contexts |-> <<>>, answer |-> NoInformationAnswer, sources_used |-> 0,
     input |-> <<>>, documents |-> <<>>, outcome |-> "none", tree |-> <<>>,
     branch |-> "none", existed |-> FALSE, after_success |-> FALSE,
     ingests |-> 0,
     info |-> [total_documents |-> 0, categories |-> <<>>, status |-> "none"],
     again |-> FALSE,
     prior |-> [total_documents |-> 0, categories |-> <<>>, status |-> "none"],
     summary |-> [text |-> "", knowledge_base |-> <<>>],
     endpoint |-> "none", http |-> 0, core_calls |-> 0, core_question |-> <<>>,
     sources |-> <<>>, embedded_by |-> "none"]

\* the collection just created
StoreInit ==
    /\ store = <<>>
    /\ dupPolicy \in DupPolicies
    /\ assigned = {}
    /\ last = NoCall

RespInit ==
    /\ rquestion = <<>>
    /\ rcontexts = <<>>
    /\ ranswer = [NoInformationAnswer EXCEPT !.kind = "none"]

\* no repository cloned yet
ProcInit == cloned = {} /\ synced = {}

\* the API just started
ApiInit == query_count = 0 /\ rag_system = "none"

Init == StoreInit /\ CatInit /\ RespInit /\ ProcInit /\ ApiInit

\* processor.ingest_documents(docs); down: the store fails the add.
\* r: what the call did.
\* reused: the ids of this call that an earlier call had assigned.
\* repeat: the call before was ingest_documents with the same documents, and
\* the store was up in both.
Ingest(docs, down) ==
    \E r \in { IngestDocuments(store, dupPolicy, docs, down) } :
    /\ store' = r.store
    /\ assigned' = assigned \cup Range(r.ids)
    /\ last' = [NoCall EXCEPT !.op = "ingest", !.raised = r.raised, !.down = down,
                              !.docs = docs, !.ids = r.ids,
                              !.texts = r.texts, !.metadatas = r.metadatas,
                              !.reused = Range(r.ids) \cap assigned,
                              !.addAttempts = r.addAttempts,
                              !.addFailed = r.addFailed, !.before = store,
                              !.repeat = (last.op = "ingest" /\ ~last.down /\ ~down
                                          /\ docs # <<>> /\ last.docs = docs)]
    /\ UNCHANGED <<dupPolicy, catVars, respVars, procVars, apiVars>>

\* rag.retrieve_context(q, n); down: the store's query raises
Retrieve(q, n, down) ==
    \E r \in { RetrieveContext(store, q, n, down) } :
    /\ last' = [NoCall EXCEPT !.op = "retrieve", !.raised = r.raised, !.down = down,
                              !.query = q, !.n = n, !.contexts = r.contexts,
                              !.embedded_by = r.embedded_by]
    /\ UNCHANGED <<store, dupPolicy, assigned, catVars, respVars, procVars, apiVars>>

\* rag.search_by_category(q, c, n)
Search(q, c, n, down) ==
    \E r \in { SearchByCategory(store, q, c, n, down) } :
    /\ last' = [NoCall EXCEPT !.op = "search", !.raised = r.raised, !.down = down,
                              !.query = q, !.n = n, !.where = c,
                              !.contexts = r.contexts,
                              !.embedded_by = r.embedded_by]
    /\ UNCHANGED <<store, dupPolicy, assigned, catVars, respVars, procVars, apiVars>>

\* a plausible slip: the question kept in the collection as a chunk of its own
QueryRemembering(q, n, down) ==
    \E r \in { QueryRag(store, q, n, down) } :
    /\ store' = CollectionAdd(store, "ignore", down, <<q>>,
                              << [source |-> <<"q","u","e","s","t","i","o","n">>, type |-> "text",
                                  category |-> "general"] >>,
                              << ChunkId(Len(store)) >>).store
    /\ last' = [NoCall EXCEPT !.op = "query", !.raised = r.raised, !.down = down,
                              !.query = q, !.n = n, !.contexts = r.contexts,
                              !.answer = r.answer, !.sources_used = r.sources_used]
    /\ UNCHANGED <<dupPolicy, assigned, catVars, respVars, procVars, apiVars>>

\* rag.query(q, n)
Query(q, n, down) ==
    \E r \in { QueryRag(store, q, n, down) } :
    /\ last' = [NoCall EXCEPT !.op = "query", !.raised = r.raised, !.down = down,
                              !.query = q, !.n = n, !.contexts = r.contexts,
                              !.answer = r.answer, !.sources_used = r.sources_used]
    /\ UNCHANGED <<store, dupPolicy, assigned, catVars, respVars, procVars, apiVars>>

\* rag.get_knowledge_base_info(); down: the store fails.
\* again: the call before was get_knowledge_base_info as well; prior: what it
\* returned.
Info(down) ==
    /\ last' = [NoCall EXCEPT !.op = "info", !.down = down,
                              !.info = GetKnowledgeBaseInfo(store, down),
                              !.before = store,
                              !.again = (last.op = "info"), !.prior = last.info]
    /\ UNCHANGED <<store, dupPolicy, assigned, catVars, respVars, procVars, apiVars>>

\* rag.get_expertise_summary()
Summary(down) ==
    /\ last' = [NoCall EXCEPT !.op = "summary", !.down = down,
                              !.summary = GetExpertiseSummary(store, down),
                              !.before = store]
    /\ UNCHANGED <<store, dupPolicy, assigned, catVars, respVars, procVars, apiVars>>

Next ==
    \/ \E docs \in DocumentLists, down \in BOOLEAN : Ingest(docs, down)
    \/ \E down \in BOOLEAN : Info(down)
    \/ \E down \in BOOLEAN : Summary(down)
    \/ \E q \in Questions, n \in 1..MaxN, down \in BOOLEAN : Retrieve(q, n, down)
    \/ \E q \in Questions, c \in SearchCategories, n \in 1..MaxN, down \in BOOLEAN :
          Search(q, c, n, down)
    \/ \E q \in Questions, n \in 1..MaxN, down \in BOOLEAN : Query(q, n, down)

Spec == Init /\ [][Next]_vars

----------------------------------------------------------------------------
(* The normalizers and process_github_repo *)

\* processor.process_pdf(file), process_docx, process_markdown and
\* process_text_file: documents is the list returned
ProcessPdfCall(file) ==
    /\ last' = [NoCall EXCEPT !.op = "process_pdf", !.input = file,
                              !.documents = ProcessPdf(file)]
    /\ UNCHANGED <<store, dupPolicy, assigned, catVars, respVars, procVars, apiVars>>

ProcessDocxCall(file) ==
    /\ last' = [NoCall EXCEPT !.op = "process_docx", !.input = file,
                              !.documents = ProcessDocx(file)]
    /\ UNCHANGED <<store, dupPolicy, assigned, catVars, respVars, procVars, apiVars>>

ProcessMarkdownCall(file) ==
    /\ last' = [NoCall EXCEPT !.op = "process_markdown", !.input = file,
                              !.documents = ProcessMarkdown(file)]
    /\ UNCHANGED <<store, dupPolicy, assigned, catVars, respVars, procVars, apiVars>>

ProcessTextFileCall(file) ==
    /\ last' = [NoCall EXCEPT !.op = "process_text_file", !.input = file,
                              !.documents = ProcessTextFile(file)]
    /\ UNCHANGED <<store, dupPolicy, assigned, catVars, respVars, procVars, apiVars>>

\* processor.process_github_repo(repo_url); outcome: what git does; tree: the
\* working tree a successful clone or pull leaves.
\* after_success: an earlier run has cloned or pulled this repository with
\* success.
ProcessGithubRepoCall(repo_url, outcome, tree) ==
    \E repo_name \in { RepoName(repo_url) } :
    \E r \in { ProcessGithubRepo(repo_url, repo_name \in cloned, outcome, tree) } :
    /\ cloned' = IF r.exists THEN cloned \cup { repo_name }
                 ELSE cloned \ { repo_name }
    /\ synced' = IF outcome = "ok" THEN synced \cup { repo_name } ELSE synced
    /\ last' = [NoCall EXCEPT !.op = "process_github_repo", !.raised = r.raised,
                              !.input = repo_url, !.outcome = outcome,
                              !.tree = tree, !.branch = r.branch,
                              !.existed = (repo_name \in cloned),
                              !.after_success = (repo_name \in synced),
                              !.documents = r.documents]
    /\ UNCHANGED <<store, dupPolicy, assigned, catVars, respVars, apiVars>>

\* git and the working tree it leaves: a tree only after a success
GitRuns ==
    { <<"ok", tree>> : tree \in RepoTrees }
        \cup { <<outcome, <<>> >> : outcome \in GitOutcomes \ { "ok" } }

ProcessNext ==
    \/ \E file \in PdfFiles : ProcessPdfCall(file)
    \/ \E file \in DocxFiles : ProcessDocxCall(file)
    \/ \E file \in MarkdownFiles : ProcessMarkdownCall(file)
    \/ \E file \in TextFiles : ProcessTextFileCall(file)
    \/ \E repo_url \in RepoUrls, run \in GitRuns :
          ProcessGithubRepoCall(repo_url, run[1], run[2])

\* the collection plays no part in the normalizers
ProcessInit == Init /\ dupPolicy = "ignore"

SpecProcess == ProcessInit /\ [][ProcessNext]_vars

----------------------------------------------------------------------------
(* process_directory *)

\* processor.process_directory(dir); down: the store fails the add
ProcessDirectoryCall(dir, down) ==
    \E r \in { ProcessDirectory(store, dupPolicy, dir, down) } :
    /\ store' = r.store
    /\ assigned' = assigned \cup Range(r.ids)
    /\ last' = [NoCall EXCEPT !.op = "process_directory", !.raised = r.raised,
                              !.down = down, !.input = dir,
                              !.documents = r.documents, !.ingests = r.ingests,
                              !.ids = r.ids, !.before = store]
    /\ UNCHANGED <<dupPolicy, catVars, respVars, procVars, apiVars>>

DirectoryNext ==
    \E dir \in Directories, down \in BOOLEAN : ProcessDirectoryCall(dir, down)

SpecDirectory == Init /\ [][DirectoryNext]_vars

----------------------------------------------------------------------------
(* The query endpoints of the API *)

\* the startup event: rag_system = DevSecOpsRAG()
Startup ==
    /\ rag_system = "none"
    /\ rag_system' = "ready"
    /\ UNCHANGED <<storeVars, catVars, respVars, procVars, query_count>>

\* a POST to one of the query endpoints with the body {question,
\* context_count, include_sources}, the store answering.
\* http: the status of the response; core_calls: the calls of rag_system.query
\* made, core_question: the question passed to it.
ApiQuery(endpoint, question, context_count, include_sources) ==
    /\ query_count < MaxQueries
    /\ \E r \in { QueryEndpoint(rag_system = "ready", store, endpoint, question,
                                 context_count, include_sources) } :
          /\ query_count' = query_count + r.counted
          /\ last' = [NoCall EXCEPT !.op = "api_query", !.endpoint = endpoint,
                                    !.query = question, !.n = context_count,
                                    !.http = r.http, !.core_calls = r.core_calls,
                                    !.core_question = r.core_question,
                                    !.answer = r.answer,
                                    !.sources_used = r.sources_used,
                                    !.sources = r.sources]
    /\ UNCHANGED <<store, dupPolicy, assigned, catVars, respVars, procVars,
                   rag_system>>

\* the questions clients send
ApiQuestions == { <<>>, <<" "," ">>, <<"k","8","s","?">> }

ApiNext ==
    \/ Startup
    \/ \E doc \in Documents : Ingest(<<doc>>, FALSE)
    \/ \E endpoint \in QueryEndpoints, question \in ApiQuestions,
          context_count \in 1..MaxN, include_sources \in BOOLEAN :
          ApiQuery(endpoint, question, context_count, include_sources)

\* the API before its startup event, over a new collection
ApiServiceInit == Init /\ dupPolicy = "ignore"

SpecApi == ApiServiceInit /\ [][ApiNext]_vars

----------------------------------------------------------------------------
(* _categorize_document on its own *)

\* a filename to categorise, and the same filename in another letter case
CategorizeInit ==
    /\ StoreInit
    /\ dupPolicy = "ignore"
    /\ RespInit
    /\ ProcInit
    /\ ApiInit
    /\ fname \in Filenames
    /\ gname \in Recasings(fname)
    /\ fcat = "none"
    /\ gcat = "none"

CategorizeNext == Categorize /\ UNCHANGED <<storeVars, respVars, procVars, apiVars>>

SpecCategorize == CategorizeInit /\ [][CategorizeNext]_vars

----------------------------------------------------------------------------
(* generate_response on its own *)

QuestionParts ==
    { <<"k","8","s">>, <<"K","u","b","e","r","n","e","t","e","s">>, <<"p","i","p","e","l","i","n","e">>, <<"C","I","/","C","D">>, <<"a","w","s">>, <<"C","l","o","u","d">>, <<"a","i">>,
      <<"m","o","d","e","l">>, <<"m">>, <<"L">>, <<" ","h","o","w"," ">> }

AnyQuestions == Joined(QuestionParts, MaxQuestionParts) \cup { <<>> }

\* the context lists retrieve_context returns from the stores one ingest fills
ContextLists ==
    { RetrieveContext(IngestDocuments(<<>>, "ignore", docs, FALSE).store,
                      <<>>, MaxN, FALSE).contexts : docs \in DocumentLists }

\* a question and the contexts retrieved for it
RespondInit ==
    /\ StoreInit
    /\ dupPolicy = "ignore"
    /\ CatInit
    /\ ProcInit
    /\ ApiInit
    /\ rquestion \in AnyQuestions
    /\ rcontexts \in ContextLists
    /\ ranswer = [NoInformationAnswer EXCEPT !.kind = "none"]

\* generate_response(rquestion, prepare_context_string(rcontexts))
Respond ==
    /\ ranswer.kind = "none"
    /\ ranswer' = GenerateResponse(rquestion, PrepareContextString(rcontexts))
    /\ UNCHANGED <<rquestion, rcontexts>>

RespondNext == Respond /\ UNCHANGED <<storeVars, catVars, procVars, apiVars>>

SpecRespond == RespondInit /\ [][RespondNext]_vars

----------------------------------------------------------------------------
(* ingest_documents on texts longer than a chunk *)

\* words a long text is put together from
MaxWords == 3

\* the lengths of the words: under a third of chunk_size, under a half of it,
\* and over chunk_size
WordLengths == { 299, 450, 1100 }

\* what stands between two words of a text: a space, the two characters
\* backslash and n, or a newline
Gaps == { <<" ">>, <<"<bs>","n">>, <<"<lf>">> }

Alphabet ==
    << "a", "b", "c", "d", "e", "f", "g", "h", "i", "j", "k", "l", "m",
       "n", "o", "p", "q", "r", "s", "t", "u", "v", "w", "x", "y", "z" >>

\* the k-th word of a text, of n characters: the digit k and letters after it
Word(k, n) == IntText(k) \o Tuple([i \in 1..(n - 1) |-> Alphabet[((i + k) % 26) + 1]])

\* the text of the words of the lengths ns with the gap between them
WordsText(ns, gap) == Join(Tuple([k \in 1..Len(ns) |-> Word(k, ns[k])]), gap)

\* the longest text, in characters
MaxTextLength == 2000

\* the text file with a long text
LongFile(ns, gap) ==
    [path |-> <<"d","/","n","o","t","e","s",".","t","x","t">>, text |-> WordsText(ns, gap), readable |-> TRUE]

\* the lists handed to ingest_documents: a long document d, alone, before or
\* after a short one
ListsWith(d) ==
    { << d >> } \cup { << d, e >> : e \in Documents } \cup { << e, d >> : e \in Documents }

\* a list with a long document, of at most MaxWords words and MaxTextLength
\* characters, is about to be ingested into the empty collection
ChunkInit ==
    /\ store = <<>>
    /\ dupPolicy = "ignore"
    /\ assigned = {}
    /\ \E ns \in (SeqsUpTo(WordLengths, MaxWords) \ { <<>> }), gap \in Gaps :
          \E file \in { LongFile(ns, gap) } :
             /\ Len(file.text) <= MaxTextLength
             /\ last \in { [NoCall EXCEPT !.docs = docs] :
                              docs \in ListsWith(ProcessTextFile(file)[1]) }
    /\ CatInit /\ RespInit /\ ProcInit /\ ApiInit

\* processor.ingest_documents(documents) on the list, the store taking the add
IngestGiven == last.op = "none" /\ Ingest(last.docs, FALSE)

ChunkNext == IngestGiven

SpecChunk == ChunkInit /\ [][ChunkNext]_vars

----------------------------------------------------------------------------
(* The sections of an answer *)

\* lines of the documents answered from
MaxLines == 4

\* the length of the filling of a long line
FillingLength == 230

\* the lines a document is put together from: with a key-point keyword, with
\* security keywords, with both and longer than a bullet, and one that begins
\* like the header of a source
LineKinds ==
    { <<" ","D","e","p","l","o","y"," ","t","h","e"," ","c","l","u","s","t","e","r">>,
      <<"a","u","d","i","t"," ","e","v","e","r","y"," ","r","i","s","k">>,
      <<"C","o","n","f","i","g","u","r","e"," ","s","e","c","u","r","i","t","y"," ">> \o Tuple([i \in 1..FillingLength |-> Alphabet[(i % 26) + 1]]),
      <<"[","S","o","u","r","c","e"," ","c","o","d","e","]"," ","i","s"," ","s","e","c","u","r","e">> }

\* the text file of the lines, written with \n between them
LinesFile(path, lines) ==
    [path |-> path, text |-> Join(lines, BackslashN), readable |-> TRUE]

\* the documents of the lines: the first k lines in one file, the lines after
\* them, when there are any, in another
LinesDocuments(lines, k) ==
    ProcessTextFile(LinesFile(<<"d","/","k","8","s","-","s","e","c",".","t","x","t">>, SubSeq(lines, 1, k)))
    \o (IF k < Len(lines)
        THEN ProcessTextFile(LinesFile(<<"d","/","n","o","t","e","s",".","t","x","t">>, SubSeq(lines, k + 1, Len(lines))))
        ELSE <<>>)

\* the contexts retrieve_context returns from a store that one ingest of
\* these documents filled, every chunk of it retrieved
LinesContexts(lines, k) ==
    Only({ RetrieveContext(st, <<>>, Len(st), FALSE).contexts :
             st \in { IngestDocuments(<<>>, "ignore", LinesDocuments(lines, k),
                                      FALSE).store } })

\* a question and the contexts retrieved for it: the lines are in one file,
\* or the first line in one file and the others in another
SectionsInit ==
    /\ StoreInit
    /\ dupPolicy = "ignore"
    /\ CatInit
    /\ ProcInit
    /\ ApiInit
    /\ rquestion = <<"I","s"," ","k","8","s"," ","s","e","c","u","r","e","?">>
    /\ \E lines \in (SeqsUpTo(LineKinds, MaxLines) \ { <<>> }) :
          \E k \in { 1, Len(lines) } : rcontexts = LinesContexts(lines, k)
    /\ ranswer = [NoInformationAnswer EXCEPT !.kind = "none"]

SpecSections == SectionsInit /\ [][RespondNext]_vars

----------------------------------------------------------------------------
(* query on documents that quote the no-context sentence *)

\* a text file whose text holds the words generate_response looks for
QuotingFiles ==
    { [path |-> <<"d","/","f","a","q",".","t","x","t">>, text |-> <<"N","o"," ","r","e","l","e","v","a","n","t"," ","c","o","n","t","e","x","t","?"," ","D","e","p","l","o","y"," ","d","o","c","s">>,
       readable |-> TRUE] }

\* the documents ingested: those of the data directory and the quoting one
AnswerDocuments == Documents \cup { ProcessTextFile(f)[1] : f \in QuotingFiles }

\* the lists handed to ingest_documents: one document, or two different ones
AnswerDocumentLists ==
    { << d >> : d \in AnswerDocuments }
        \cup { p \in AnswerDocuments \X AnswerDocuments : p[1] # p[2] }

\* the processor and the assistant on a new collection
AnswerInit == Init /\ dupPolicy = "ignore"

AnswerNext ==
    \/ \E docs \in AnswerDocumentLists : Ingest(docs, FALSE)
    \/ \E q \in Questions, n \in 1..MaxN, down \in BOOLEAN : Query(q, n, down)

SpecAnswer == AnswerInit /\ [][AnswerNext]_vars

----------------------------------------------------------------------------
(* C1: category assignment *)

\* the rules in the order the specification gives them
CategoryRules ==
    << [category |-> "security", keywords |-> KwSecurity],
       [category |-> "cicd", keywords |-> KwCicd],
       [category |-> "infrastructure", keywords |-> KwInfrastructure],
       [category |-> "ai_engineering", keywords |-> KwAiEngineering],
       [category |-> "cloud_certification", keywords |-> KwCloudCertification],
       [category |-> "professional_profile", keywords |-> KwProfessionalProfile],
       [category |-> "project_documentation", keywords |-> KwProjectDocumentation] >>

\* the category of the first rule with a keyword occurring in s, else general
FirstRuleCategory(s) ==
    LET matching == { i \in 1..Len(CategoryRules) : AnyIn(s, CategoryRules[i].keywords) }
    IN  IF matching = {} THEN "general"
        ELSE CategoryRules[CHOOSE i \in matching : \A j \in matching : i <= j].category

\* C1: _categorize_document returns the category of the first rule, in the
\* fixed order, that has a keyword occurring in the lower-cased filename, and
\* general when no rule matches; the same filename in another letter case
\* gets the same category.
C1_FirstMatchingRuleAnyCase ==
    fcat # "none" =>
        /\ fcat = FirstRuleCategory(Lower(fname))
        /\ gcat = fcat

\* C1 witness: a filename with upper-case letters that matches the security
\* rule and the cicd rule, categorised security, and re-cased to another text
C1_Witness ==
    /\ fcat = "security"
    /\ AnyIn(Lower(fname), KwCicd)
    /\ fname # Lower(fname)
    /\ gname # fname
    /\ gcat = "security"

----------------------------------------------------------------------------
(* C2, C3, C4: ingestion *)

\* C2: no ingest_documents call assigns a chunk identifier that an earlier
\* call on the same store has assigned.
C2_NoIdentifierAssignedTwice ==
    last.op = "ingest" => last.reused = {}

\* C3: a second ingest_documents call with the same non-empty documents does
\* not raise, gives its chunks identifiers no earlier call used, and stores
\* them as new entries, so that the store holds both generations.
C3_ReingestStoresNewGeneration ==
    (last.op = "ingest" /\ last.repeat) =>
        /\ ~last.raised
        /\ last.reused = {}
        /\ Len(store) = Len(last.before) + Len(last.ids)
        /\ Len(store) >= 2 * Len(last.ids)

\* C4: when the store's add fails, ingest_documents returns without raising,
\* has called add exactly once, and the store holds what it held before.
C4_FailedAddIsSwallowed ==
    (last.op = "ingest" /\ last.addFailed) =>
        /\ ~last.raised
        /\ last.addAttempts = 1
        /\ store = last.before

\* C4 witness: the add of chunks failed on a store that held chunks
C4_Witness ==
    /\ last.op = "ingest"
    /\ last.addFailed
    /\ last.down
    /\ last.ids # <<>>
    /\ last.before # <<>>
    /\ store = last.before

----------------------------------------------------------------------------
(* C5, C6, C7, C8: retrieval *)

\* C5: retrieve_context returns the store's results in the store's order, each
\* with relevance_score 1 - distance, unclamped; the scores are therefore in
\* non-increasing order.
C5_StoreOrderAndUnclampedScore ==
    (last.op = "retrieve" /\ ~last.down) =>
        LET raw == CollectionQuery(store, last.query, last.n, NoFilter) IN
        /\ Len(last.contexts) = Len(raw)
        /\ \A i \in 1..Len(raw) :
              /\ last.contexts[i].content = raw[i].document
              /\ last.contexts[i].metadata = raw[i].metadata
              /\ last.contexts[i].relevance_score = 1 - raw[i].distance
        /\ \A i, j \in 1..Len(last.contexts) :
              i < j => last.contexts[i].relevance_score >= last.contexts[j].relevance_score

\* C5 witness: two different chunks returned, the second with a score below 0
C5_Witness ==
    /\ last.op = "retrieve"
    /\ ~last.down
    /\ Len(last.contexts) = 2
    /\ last.contexts[1].content # last.contexts[2].content
    /\ last.contexts[1].relevance_score > last.contexts[2].relevance_score
    /\ last.contexts[2].relevance_score < 0

\* C6: search_by_category returns at most n results, all of the category
\* asked for: the first n of the store's answer to the filtered request for
\* 2n neighbours.
C6_OnlyTheCategoryAskedFor ==
    last.op = "search" =>
        /\ Len(last.contexts) <= last.n
        /\ \A i \in 1..Len(last.contexts) :
              last.contexts[i].metadata.category = last.where
        /\ ~last.down =>
              LET raw == CollectionQuery(store, last.query, 2 * last.n, last.where) IN
              /\ Len(last.contexts) = (IF last.n < Len(raw) THEN last.n ELSE Len(raw))
              /\ \A i \in 1..Len(last.contexts) :
                    /\ last.contexts[i].content = raw[i].document
                    /\ last.contexts[i].metadata = raw[i].metadata
                    /\ last.contexts[i].relevance_score = 1 - raw[i].distance

\* C6 witness: a chunk is returned while the store holds a chunk of another
\* category that is nearer to the query
C6_Witness ==
    /\ last.op = "search"
    /\ last.contexts # <<>>
    /\ \E k \in 1..Len(store) :
          /\ store[k].metadata.category # last.where
          /\ 1 - Distance(last.query, store[k].document)
                > last.contexts[1].relevance_score

\* C7: retrieve_context with the empty string as query, and retrieve_context
\* on an empty store, return an empty list without raising.
C7_EmptyQueryOrEmptyStoreReturnsNothing ==
    (last.op = "retrieve" /\ (last.query = <<>> \/ store = <<>>)) =>
        /\ ~last.raised
        /\ last.contexts = <<>>

\* C8: when the store's query raises, retrieve_context and search_by_category
\* return an empty list, and query() returns the no-information answer with
\* sources_used 0 and no contexts; none of them raises.
C8_StoreFailureDegrades ==
    (last.op \in { "retrieve", "search", "query" } /\ last.down) =>
        /\ ~last.raised
        /\ last.contexts = <<>>
        /\ last.op = "query" =>
              /\ last.answer = NoInformationAnswer
              /\ last.sources_used = 0

\* C8 witness: query() on a store that holds chunks, the store's query raising
C8_Witness ==
    /\ last.op = "query"
    /\ last.down
    /\ store # <<>>
    /\ ~last.raised
    /\ last.answer = NoInformationAnswer

----------------------------------------------------------------------------
(* C9, C10: the answer *)

\* C9: when nothing was retrieved, the answer of query() is the canned
\* no-information sentence, with no section, whatever the question.
C9_NothingRetrievedGivesCannedAnswer ==
    (last.op = "query" /\ last.contexts = <<>>) =>
        /\ last.answer.kind = "no_information"
        /\ last.answer.key_points = <<>>
        /\ last.answer.recommendations = <<>>
        /\ last.answer.security_points = <<>>

\* C9 witness: a question with a Kubernetes keyword asked of an empty store
\* that answers
C9_Witness ==
    /\ last.op = "query"
    /\ ~last.down
    /\ store = <<>>
    /\ Contains(Lower(last.query), <<"k","8","s">>)
    /\ last.answer = NoInformationAnswer

\* the keyword groups in the order the specification gives them
RecommendationGroups ==
    << [keywords |-> { <<"k","u","b","e","r","n","e","t","e","s">>, <<"k","8","s">> }, bullets |-> RecKubernetes],
       [keywords |-> { <<"c","i","/","c","d">>, <<"p","i","p","e","l","i","n","e">> }, bullets |-> RecCicd],
       [keywords |-> { <<"a","w","s">>, <<"c","l","o","u","d">> }, bullets |-> RecAws],
       [keywords |-> { <<"a","i">>, <<"m","l">>, <<"m","o","d","e","l">> }, bullets |-> RecAiMl] >>

\* the bullets of the first group with a keyword occurring in s, else generic
FirstGroupBullets(s) ==
    LET matching == { i \in 1..Len(RecommendationGroups) :
                        AnyIn(s, RecommendationGroups[i].keywords) }
    IN  IF matching = {} THEN RecGeneric
        ELSE RecommendationGroups[CHOOSE i \in matching :
                                     \A j \in matching : i <= j].bullets

\* C10: the recommendations are those of the first keyword group, in the order
\* Kubernetes, CI/CD, AWS, AI/ML, that has a keyword in the lower-cased
\* question, and the generic ones when no group has.
C10_RecommendationsOfFirstGroup ==
    ranswer.kind = "structured" =>
        ranswer.recommendations = FirstGroupBullets(Lower(rquestion))

\* C10 witness: a question naming a pipeline before Kubernetes gets the
\* Kubernetes bullets
C10_Witness ==
    /\ ranswer.kind = "structured"
    /\ StartsWith(rquestion, <<"p","i","p","e","l","i","n","e">>)
    /\ Contains(rquestion, <<"K","u","b","e","r","n","e","t","e","s">>)
    /\ ranswer.recommendations = RecKubernetes

----------------------------------------------------------------------------
(* Recommendations and the question *)

\* C11 as stated: every answered question containing 'pipeline' carries the
\* CI/CD recommendations, whatever the contexts are.
C11_PipelineQuestionGetsCicd ==
    (ranswer.kind # "none" /\ Contains(Lower(rquestion), <<"p","i","p","e","l","i","n","e">>))
        => ranswer.recommendations = RecCicd

\* C11 amended: an answer with sections to a question that contains
\* 'pipeline' and neither 'kubernetes' nor 'k8s', letter case aside, carries
\* the CI/CD recommendations whatever the contexts are; the canned sentence
\* given when nothing was retrieved carries no recommendation.
C11_PipelineQuestionWithoutKubernetesGetsCicd ==
    /\ ( /\ ranswer.kind = "structured"
         /\ Contains(Lower(rquestion), <<"p","i","p","e","l","i","n","e">>)
         /\ ~Contains(Lower(rquestion), <<"k","u","b","e","r","n","e","t","e","s">>)
         /\ ~Contains(Lower(rquestion), <<"k","8","s">>) )
            => ranswer.recommendations = RecCicd
    /\ ranswer.kind = "no_information" => ranswer.recommendations = <<>>

\* C11 witness: a pipeline question answered from contexts that name k8s
\* gets the CI/CD recommendations
C11_Witness ==
    /\ ranswer.kind = "structured"
    /\ Contains(Lower(rquestion), <<"p","i","p","e","l","i","n","e">>)
    /\ ~Contains(Lower(rquestion), <<"k","8","s">>)
    /\ Contains(Lower(PrepareContextString(rcontexts)), <<"k","8","s">>)
    /\ ranswer.recommendations = RecCicd

----------------------------------------------------------------------------
(* The normalizers *)

NormalizerOps ==
    { "process_pdf", "process_docx", "process_markdown", "process_text_file",
      "process_github_repo" }

\* e is met by the loop over the configuration files
IsConfiguration(e) ==
    \E x \in 1..Len(ConfigExtensions) : EndsWith(BaseName(e.path), ConfigExtensions[x])

\* the read, the decoding, an extraction, the clone, the pull or the walk of
\* the input of the call failed
InputFailed(call) ==
    IF call.op = "process_github_repo"
    THEN \/ call.outcome # "ok"
         \/ \E k \in 1..Len(call.tree) :
               IsConfiguration(call.tree[k]) /\ ~call.tree[k].stats
    ELSE \/ ~call.input.readable
         \/ /\ call.op = "process_pdf"
            /\ \E k \in 1..Len(call.input.parts) : ~call.input.parts[k].ok

\* C12 as stated: no normalizer raises, and an input whose read, decoding,
\* clone, pull or walk fails at any point yields the empty Document list.
C12_NormalizersNeverRaiseAndFailEmpty ==
    last.op \in NormalizerOps =>
        /\ ~last.raised
        /\ InputFailed(last) => last.documents = <<>>

\* the text of a page, and no text for a page whose extraction fails
PageTextOrEmpty(page) == IF page.ok THEN page.text ELSE <<>>

\* C13 as stated: a PDF file that opens and has a page whose extraction fails
\* still gives exactly one Document: the failing page contributes empty text,
\* the other pages their text in page order, and the page count is that of
\* the file.
C13_FailingPageLeavesOneDocument ==
    ( /\ last.op = "process_pdf"
      /\ last.input.readable
      /\ \E k \in 1..Len(last.input.parts) : ~last.input.parts[k].ok )
        => /\ Len(last.documents) = 1
           /\ last.documents[1].metadata.pages = Len(last.input.parts)
           /\ last.documents[1].page_content =
                 Flatten([k \in 1..Len(last.input.parts) |->
                             PageTextOrEmpty(last.input.parts[k]) \o BackslashN])

\* C15: a run of process_github_repo takes the update branch (open the clone
\* and pull) exactly when the clone path exists and the clone branch exactly
\* when it is absent; a successful run leaves the clone path in place, and
\* every run after a successful run of that repository pulls, so that at most
\* the first successful run clones.
C15_CloneOnlyWhenAbsentElsePull ==
    /\ synced \subseteq cloned
    /\ last.op = "process_github_repo" =>
          /\ last.branch = (IF last.existed THEN "update" ELSE "clone")
          /\ last.after_success => last.branch = "update"
          /\ last.outcome = "ok" => RepoName(last.input) \in cloned

\* C15 witness: a run after a successful run of the same repository pulls
\* with success and returns Documents
C15_Witness ==
    /\ last.op = "process_github_repo"
    /\ last.after_success
    /\ last.existed
    /\ last.outcome = "ok"
    /\ last.branch = "update"
    /\ last.documents # <<>>

----------------------------------------------------------------------------
(* process_directory *)

SupportedSuffixes ==
    { <<".","p","d","f">>, <<".","d","o","c","x">>, <<".","d","o","c">>, <<".","m","d">>, <<".","t","x","t">>, <<".","y","a","m","l">>, <<".","y","m","l">>, <<".","j","s","o","n">> }

\* the file is of a supported type and its processing does not fail
ProcessedSuccessfully(file) ==
    /\ Lower(Suffix(file.path)) \in SupportedSuffixes
    /\ file.readable
    /\ Lower(Suffix(file.path)) = <<".","p","d","f">> =>
          \A k \in 1..Len(file.parts) : file.parts[k].ok

\* the places in docs of the Documents read from the file at path
DocumentsOf(docs, path) == { k \in 1..Len(docs) : docs[k].metadata.source = path }

\* C14: in process_directory a file whose processing fails gives no Document
\* and the walk goes on: every successfully processed file of the directory
\* has its one Document among those collected, in the order of the walk; the
\* Documents are handed to ingest_documents in one call, the store then holding
\* the chunks of all of them, and in no call when there are none; a directory
\* that does not exist changes nothing in the store; the call does not raise.
C14_FailingFileIsSkippedAndOneIngest ==
    last.op = "process_directory" =>
        LET files == last.input.files
            good == SelectSeq(files, ProcessedSuccessfully)
        IN  /\ ~last.raised
            /\ \A k \in 1..Len(files) :
                  Cardinality(DocumentsOf(last.documents, files[k].path))
                      = (IF ProcessedSuccessfully(files[k]) THEN 1 ELSE 0)
            /\ Len(last.documents) = Len(good)
            /\ \A k \in 1..Len(good) : last.documents[k].metadata.source = good[k].path
            /\ last.ingests = (IF good = <<>> THEN 0 ELSE 1)
            /\ (last.ingests = 1 /\ ~last.down /\ last.before = <<>>)
                  => /\ Len(store) = Len(good)
                     /\ \A k \in 1..Len(good) :
                           store[k].metadata.source = good[k].path
            /\ (~last.input.exists \/ last.ingests = 0 \/ last.down)
                  => store = last.before

\* C14 witness: a directory holding a file that fails before a file that is
\* processed, ingested in one call into the empty store
C14_Witness ==
    /\ last.op = "process_directory"
    /\ Len(last.input.files) = 2
    /\ ~ProcessedSuccessfully(last.input.files[1])
    /\ Lower(Suffix(last.input.files[1].path)) \in SupportedSuffixes
    /\ ProcessedSuccessfully(last.input.files[2])
    /\ last.ingests = 1
    /\ last.before = <<>>
    /\ Len(store) = 1

----------------------------------------------------------------------------
(* get_knowledge_base_info *)

----------------------------------------------------------------------------
(* The query side *)

QuerySideOps == { "retrieve", "search", "query", "info", "summary" }

\* C17: a step of retrieve_context, search_by_category, query,
\* get_knowledge_base_info or get_expertise_summary leaves the store as it
\* was, so that query-side calls commute; what query returns is determined by
\* the store and its own arguments, whatever calls ran before it: the contexts
\* are the store's nearest chunks, and the answer is the canned one when there
\* are none and otherwise an answer to the question asked.
C17_QuerySideLeavesTheStore ==
    [][ last'.op \in QuerySideOps =>
          /\ store' = store
          /\ dupPolicy' = dupPolicy
          /\ assigned' = assigned
          /\ (last'.op = "query" /\ ~last'.down) =>
                LET raw == CollectionQuery(store, last'.query, last'.n, NoFilter) IN
                /\ last'.sources_used = Len(raw)
                /\ Len(last'.contexts) = Len(raw)
                /\ \A i \in 1..Len(raw) : last'.contexts[i].content = raw[i].document
                /\ raw = <<>> => last'.answer = NoInformationAnswer
                /\ last'.answer.kind = "structured" =>
                      last'.answer.question = last'.query ]_vars

\* C17 witness: a query answered from both chunks of a store of two
C17_Witness ==
    /\ last.op = "query"
    /\ ~last.down
    /\ Len(store) = 2
    /\ last.sources_used = 2
    /\ last.answer.kind = "structured"

----------------------------------------------------------------------------
(* The boundary of the API *)

\* C18 as stated: on each of the four query endpoints of the running API a
\* question that is empty or blank is answered with status 400, and
\* rag_system.query is not called.
C18_BlankQuestionRejectedOnEveryEndpoint ==
    (last.op = "api_query" /\ last.http # 503 /\ Strip(last.query) = <<>>)
        => last.http = 400 /\ last.core_calls = 0

----------------------------------------------------------------------------
(* Identifiers within one ingestion call *)

\* the chunks of the documents of a call, in chunk order
ChunksOf(docs) == Flatten([k \in 1..Len(docs) |-> SplitDocuments(docs[k])])

\* C19: the identifiers of one ingest_documents call are doc_0, doc_1, ... in
\* chunk order, one for each chunk, pairwise distinct, and start at doc_0
\* whatever the store holds and whatever earlier calls assigned; a store that
\* was empty then holds the chunks under these identifiers, in that order.
C19_IdsNumberTheChunksFromZero ==
    (last.op = "ingest" /\ last.docs # <<>>) =>
        /\ Len(last.ids) = Len(ChunksOf(last.docs))
        /\ \A i \in 1..Len(last.ids) : last.ids[i] = <<"doc_", i - 1>>
        /\ \A i, j \in 1..Len(last.ids) : last.ids[i] = last.ids[j] => i = j
        /\ (last.before = <<>> /\ ~last.down) =>
              /\ Len(store) = Len(last.ids)
              /\ \A i \in 1..Len(store) :
                    /\ store[i].id = <<"doc_", i - 1>>
                    /\ store[i].document = ChunksOf(last.docs)[i].page_content

\* C19 witness: a call on a store that holds chunks already numbers its two
\* chunks doc_0 and doc_1 again
C19_Witness ==
    /\ last.op = "ingest"
    /\ last.before # <<>>
    /\ last.ids = << <<"doc_", 0>>, <<"doc_", 1>> >>
    /\ last.reused # {}

----------------------------------------------------------------------------
(* One embedding function *)

\* C20: all chunks of the store were embedded by one function, and a
\* retrieve_context or search_by_category call that the store answers embeds
\* its query with the function that embedded the chunks it is compared
\* against.
C20_OneEmbeddingFunction ==
    /\ \A i, j \in 1..Len(store) : store[i].embedded_by = store[j].embedded_by
    /\ (last.op \in { "retrieve", "search" } /\ ~last.down) =>
          \A i \in 1..Len(store) : store[i].embedded_by = last.embedded_by

\* C20 witness: a retrieve_context call answered with two chunks of a store
\* that two ingestion calls filled
C20_Witness ==
    /\ last.op = "retrieve"
    /\ ~last.down
    /\ Len(store) = 2
    /\ Len(last.contexts) = 2
    /\ store[1].embedded_by = last.embedded_by
    /\ store[2].embedded_by = last.embedded_by

----------------------------------------------------------------------------
(* Chunks and their documents *)

\* the parent of every chunk of an ingest_documents call: each document of the
\* list, once for every chunk its text is cut into
ParentsOf(docs) ==
    Flatten([k \in 1..Len(docs) |->
               Tuple([j \in 1..Len(SplitText(docs[k].page_content)) |-> docs[k]])])

\* C21: every chunk that ingest_documents hands to the store carries the
\* metadata of the document it was cut from, unchanged, with that document's
\* category, which is one of the eight categories; the chunks an empty store
\* then holds carry it too, and every chunk of the store has one of the eight
\* categories.
C21_ChunksCarryTheirDocumentsMetadata ==
    /\ \A i \in 1..Len(store) : store[i].metadata.category \in Categories
    /\ last.op = "ingest" =>
          \E parents \in { ParentsOf(last.docs) } :
             /\ Len(last.metadatas) = Len(parents)
             /\ \A i \in 1..Len(parents) :
                   /\ last.metadatas[i] = parents[i].metadata
                   /\ last.metadatas[i].category = parents[i].metadata.category
                   /\ last.metadatas[i].category \in Categories
                   /\ (~last.down /\ last.before = <<>>) =>
                         store[i].metadata = parents[i].metadata

\* C21 witness: a long document cut into several chunks was ingested after a
\* short document of another category, and the store holds the chunks of both
C21_Witness ==
    /\ last.op = "ingest"
    /\ ~last.down
    /\ Len(last.docs) = 2
    /\ Len(last.metadatas) >= 3
    /\ Len(store) = Len(last.metadatas)
    /\ last.metadatas[1] = last.docs[1].metadata
    /\ last.metadatas[3] = last.docs[2].metadata
    /\ last.metadatas[1].category # last.metadatas[3].category

----------------------------------------------------------------------------
(* The overlap of neighbouring chunks *)

\* s[-n:] for n > 0
LastOf(s, n) == SubSeq(s, IF Len(s) < n THEN 1 ELSE Len(s) - n + 1, Len(s))

\* s[n:]
DropFirst(s, n) == SubSeq(s, n + 1, Len(s))

\* the first chunk followed by every later chunk without its first
\* chunk_overlap characters
Reassembled(chunks) ==
    IF chunks = <<>> THEN <<>>
    ELSE chunks[1] \o Flatten([k \in 1..(Len(chunks) - 1) |->
                                 DropFirst(chunks[k + 1], ChunkOverlap)])

\* C22: when ingest_documents cuts a document into more than one chunk, every
\* chunk after the first begins with the last chunk_overlap characters of the
\* chunk before it, and the first chunk followed by the later chunks without
\* these heads is the text of the document.
C22_OverlapHeadIsPredecessorsTail ==
    (last.op = "ingest" /\ Len(last.docs) = 1 /\ Len(last.texts) > 1) =>
        /\ \A i \in 2..Len(last.texts) :
              Take(last.texts[i], ChunkOverlap) = LastOf(last.texts[i - 1], ChunkOverlap)
        /\ Reassembled(last.texts) = Strip(last.docs[1].page_content)

----------------------------------------------------------------------------
(* The key-information and the security section *)

\* the header line of the i-th source of a context block
HeaderLine(i, ctx) ==
    <<"[","S","o","u","r","c","e"," ">> \o IntText(i) \o <<" ","-"," ">> \o CategoryTitle(ctx.metadata.category)
    \o <<"]"," ","(">> \o BaseName(ctx.metadata.source) \o <<")",":">>

HeaderLines(contexts) == { HeaderLine(i, contexts[i]) : i \in 1..Len(contexts) }

\* a line that a section may show: not the header of a source, and with one
\* of the section's keywords in some letter case
Matching(line, headers, keywords) ==
    line \notin headers /\ AnyIn(Lower(line), keywords)

RECURSIVE BulletsOfLines(_, _, _, _, _, _)
\* the bullets are, one after the other, lines found at or after place from,
\* matching, without the white space around them and cut to the width
BulletsOfLines(bullets, lines, from, headers, keywords, width) ==
    \/ bullets = <<>>
    \/ \E j \in from..Len(lines) :
          /\ Matching(lines[j], headers, keywords)
          /\ Head(bullets) = Take(Strip(lines[j]), width)
          /\ BulletsOfLines(Tail(bullets), lines, j + 1, headers, keywords, width)

\* what C23 says of one section
SectionHolds(bullets, lines, headers, keywords, limit, width, fallback) ==
    /\ Len(bullets) <= limit
    /\ \A k \in 1..Len(bullets) : Len(bullets[k]) <= width
    /\ \/ bullets = fallback
       \/ BulletsOfLines(bullets, lines, 1, headers, keywords, width)
    /\ \A k \in 1..Len(bullets) :
          \A h \in headers : bullets[k] # Take(Strip(h), width)
    /\ (\A j \in 1..Len(lines) : ~Matching(lines[j], headers, keywords)) =>
          bullets = fallback

----------------------------------------------------------------------------
(* The canned answer *)

\* C24: query() gives the canned no-information answer only when nothing was
\* retrieved: with one context or more, whatever its text, the answer is the
\* structured one with its three sections, and sources_used is the number of
\* contexts returned.
C24_CannedAnswerOnlyWithoutContexts ==
    (last.op = "query" /\ ~last.raised) =>
        /\ last.sources_used = Len(last.contexts)
        /\ last.answer.kind = "no_information" => last.contexts = <<>>
        /\ last.contexts # <<>> =>
              /\ last.answer.kind = "structured"
              /\ last.answer.key_points # <<>>
              /\ last.answer.recommendations # <<>>
              /\ last.answer.security_points # <<>>

====
